---- MODULE Spec2Model ----
(***************************************************************************)
(* A model of the request-construction engine of xdiff/xreq: override      *)
(* grouping (cli.rs), RequestProfile::generate / get_url / send / from_str *)
(* and config validation (config/mod.rs, config/xreq.rs), and the run      *)
(* pipelines of the two binaries (bin/xreq.rs, bin/xdiff.rs).              *)
(*                                                                         *)
(* Texts are TLA+ strings, handled character by character with Len, SubSeq *)
(* and \o, so that parsing, serialising and splitting are computed and not *)
(* assumed.                                                                *)
(***************************************************************************)
EXTENDS Integers, Sequences, FiniteSets, TLC

(***************************************************************************)
(* Bounds of the model.                                                    *)
(***************************************************************************)
\* longest Vec<KeyVal> given on the command line
MaxTokens == 2

(***************************************************************************)
(* Characters and texts.                                                   *)
(***************************************************************************)
\* The printable ASCII characters in code order: 32 (space) to 95 (_), and 97 (a)
\* to 126 (~). Code 96 cannot be written in a TLA+ string and is left out.
AsciiLo == " !\"#$%&'()*+,-./0123456789:;<=>?@ABCDEFGHIJKLMNOPQRSTUVWXYZ[\\]^_"
AsciiHi == "abcdefghijklmnopqrstuvwxyz{|}~"

DecDigits == "0123456789"
HexDigits == "0123456789ABCDEF"
Upper == "ABCDEFGHIJKLMNOPQRSTUVWXYZ"
Lower == "abcdefghijklmnopqrstuvwxyz"

Char(s, i) == SubSeq(s, i, i)

\* Position of the first occurrence of the character c in s, 0 when absent.
IndexOf(s, c) ==
    IF \E i \in 1..Len(s) : Char(s, i) = c
    THEN CHOOSE i \in 1..Len(s) :
            /\ Char(s, i) = c
            /\ \A j \in 1..(i - 1) : Char(s, j) # c
    ELSE 0

Contains(s, c) == IndexOf(s, c) # 0

\* The byte value of a printable ASCII character.
Code(c) ==
    IF Contains(AsciiLo, c) THEN 31 + IndexOf(AsciiLo, c) ELSE 96 + IndexOf(AsciiHi, c)

IsAlpha(c) == Contains(Upper, c) \/ Contains(Lower, c)
IsSpace(c) == c \in {" ", "\n", "\t", "\r"}

RECURSIVE ToLower(_)
\* str::to_ascii_lowercase
ToLower(s) ==
    IF s = "" THEN ""
    ELSE (IF Contains(Upper, Char(s, 1)) THEN Char(Lower, IndexOf(Upper, Char(s, 1)))
          ELSE Char(s, 1)) \o ToLower(Tail(s))

RECURSIVE StrLess(_, _)
\* The byte-wise lexicographic order of str (Ord for String).
StrLess(a, b) ==
    IF b = "" THEN FALSE
    ELSE IF a = "" THEN TRUE
    ELSE IF Char(a, 1) = Char(b, 1) THEN StrLess(Tail(a), Tail(b))
    ELSE Code(Char(a, 1)) < Code(Char(b, 1))

RECURSIVE TrimStart(_)
TrimStart(s) == IF s # "" /\ IsSpace(Char(s, 1)) THEN TrimStart(Tail(s)) ELSE s

\* The character with byte value n (32..126 except 96).
CharOf(n) == IF n <= 95 THEN Char(AsciiLo, n - 31) ELSE Char(AsciiHi, n - 96)

\* str::split(c).next(): the part of s before the first c, all of s without one.
BeforeFirst(s, c) == IF Contains(s, c) THEN SubSeq(s, 1, IndexOf(s, c) - 1) ELSE s

\* The part of s after the first c; "" when s holds no c.
AfterFirst(s, c) ==
    IF Contains(s, c) THEN SubSeq(s, IndexOf(s, c) + 1, Len(s)) ELSE ""

RECURSIVE AllChars(_, _)
\* Every character of s is one of the characters of the text allowed.
AllChars(s, allowed) ==
    s = "" \/ (Contains(allowed, Char(s, 1)) /\ AllChars(Tail(s), allowed))

RECURSIVE StrToNat(_)
\* The number written by a text of decimal digits.
StrToNat(s) ==
    IF s = "" THEN 0
    ELSE 10 * StrToNat(SubSeq(s, 1, Len(s) - 1)) + (IndexOf(DecDigits, Char(s, Len(s))) - 1)

RECURSIVE NatToStr(_)
NatToStr(n) ==
    IF n < 10 THEN Char(DecDigits, n + 1)
    ELSE NatToStr(n \div 10) \o Char(DecDigits, (n % 10) + 1)

(***************************************************************************)
(* serde_json::Value.  One record shape for every value: t is the variant, *)
(* n the integer of a Number (1/0 for a Bool), s the text of a String, o   *)
(* the entries of an Object.  serde_json::Map is a BTreeMap (the crate's   *)
(* default, no preserve_order): an object is the sequence of its entries   *)
(* [k, v] in ascending key order.                                          *)
(***************************************************************************)
JNull == [t |-> "null", n |-> 0, s |-> "", o |-> <<>>]
JBool(b) == [t |-> "bool", n |-> IF b THEN 1 ELSE 0, s |-> "", o |-> <<>>]
JNum(n) == [t |-> "num", n |-> n, s |-> "", o |-> <<>>]
\* A Number held as f64, s its shortest display (only "-0.0" arises).
JFloat(s) == [t |-> "float", n |-> 0, s |-> s, o |-> <<>>]
JStr(s) == [t |-> "str", n |-> 0, s |-> s, o |-> <<>>]
JObj(o) == [t |-> "obj", n |-> 0, s |-> "", o |-> o]
\* json!({})
JEmpty == JObj(<<>>)

\* Value::is_object
IsObject(v) == v.t = "obj"

\* Map::contains_key
HasKey(o, k) == \E i \in 1..Len(o) : o[i].k = k

\* Map::get on a key the map holds.
Get(o, k) == o[CHOOSE i \in 1..Len(o) : o[i].k = k].v

\* Map::insert on a BTreeMap: replaces the value of a key already held, puts a new
\* key at its place in key order.
MapInsert(o, k, v) ==
    IF HasKey(o, k)
    THEN [i \in 1..Len(o) |-> IF o[i].k = k THEN [k |-> k, v |-> v] ELSE o[i]]
    ELSE LET pos == Cardinality({i \in 1..Len(o) : StrLess(o[i].k, k)})
         IN  SubSeq(o, 1, pos) \o <<[k |-> k, v |-> v]>> \o SubSeq(o, pos + 1, Len(o))

\* value[key] = v (IndexMut<&str> for Value) on an object value.
SetKey(val, k, v) == JObj(MapInsert(val.o, k, v))

(***************************************************************************)
(* serde_json::from_str::<Value> (impl FromStr for Value), on the texts of *)
(* the model: the three literals, integers, strings whose only escapes are *)
(* \" and \\, objects of these, and texts that are no JSON (no text of the *)
(* model holds an array, a fraction or an exponent).  A result is a record *)
(* [ok, v, rest], rest being the text after the value.                     *)
(***************************************************************************)

\* The JSON grammar of an integer: "-"? ("0" | [1-9][0-9]*).
IsJsonInt(s) ==
    LET d == IF s # "" /\ Char(s, 1) = "-" THEN Tail(s) ELSE s
    IN  /\ d # ""
        /\ AllChars(d, DecDigits)
        /\ (Char(d, 1) = "0" => Len(d) = 1)

ParseJsonInt(s) ==
    IF s = "-0" THEN JFloat("-0.0")
    ELSE IF Char(s, 1) = "-" THEN JNum(0 - StrToNat(Tail(s)))
    ELSE JNum(StrToNat(s))

\* s starts with p.
StartsWith(s, p) == Len(s) >= Len(p) /\ SubSeq(s, 1, Len(p)) = p

\* s without its first n characters.
Drop(s, n) == SubSeq(s, n + 1, Len(s))

\* A step of the deserializer: the value read and the text left. [ok, v, rest]
ReadOk(v, rest) == [ok |-> TRUE, v |-> v, rest |-> rest]
ReadErr == [ok |-> FALSE, v |-> JNull, rest |-> ""]

RECURSIVE DigitRun(_)
\* The number of leading digits of s.
DigitRun(s) ==
    IF s # "" /\ Contains(DecDigits, Char(s, 1)) THEN 1 + DigitRun(Tail(s)) ELSE 0

\* The length of the integer at the head of s: a sign, then a single 0 or a run of
\* digits; 0 when there is none.
NumberLen(s) ==
    IF StartsWith(s, "-0") THEN 2
    ELSE IF StartsWith(s, "-") THEN (IF DigitRun(Tail(s)) = 0 THEN 0 ELSE 1 + DigitRun(Tail(s)))
    ELSE IF StartsWith(s, "0") THEN 1
    ELSE DigitRun(s)

RECURSIVE ReadString(_, _)
\* The string literal whose opening quote has been read: acc is the text so far.
\* [ok, v, rest] with v a String.
ReadString(acc, s) ==
    IF s = "" THEN ReadErr
    ELSE IF Char(s, 1) = "\"" THEN ReadOk(JStr(acc), Tail(s))
    ELSE IF Char(s, 1) = "\\"
    THEN IF Len(s) >= 2 /\ Char(s, 2) \in {"\"", "\\"}
         THEN ReadString(acc \o Char(s, 2), Drop(s, 2))
         ELSE ReadErr
    ELSE IF Char(s, 1) = "\n" THEN ReadErr
    ELSE ReadString(acc \o Char(s, 1), Tail(s))

RECURSIVE ReadValue(_), ReadMembers(_, _)

\* The value of the member k has been read: a key read twice keeps the last
\* value; then the closing brace, or a comma and the next member.
ReadMemberValue(obj, k, val) ==
    IF ~val.ok THEN ReadErr
    ELSE IF StartsWith(TrimStart(val.rest), "}")
    THEN ReadOk(SetKey(obj, k, val.v), Tail(TrimStart(val.rest)))
    ELSE IF StartsWith(TrimStart(val.rest), ",")
    THEN ReadMembers(SetKey(obj, k, val.v), TrimStart(Tail(TrimStart(val.rest))))
    ELSE ReadErr

\* The key of a member has been read: a colon and the value follow.
ReadColon(obj, key) ==
    IF key.ok /\ StartsWith(TrimStart(key.rest), ":")
    THEN ReadMemberValue(obj, key.v.s, ReadValue(Tail(TrimStart(key.rest))))
    ELSE ReadErr

\* The members of an object from a key on, obj holding those read so far.
ReadMembers(obj, s) ==
    IF StartsWith(s, "\"") THEN ReadColon(obj, ReadString("", Tail(s))) ELSE ReadErr

\* Deserializer::deserialize_any: one JSON value at the head of the text, after
\* white space.
ReadValue(text) ==
    LET value_at(s) ==
            IF StartsWith(s, "null") THEN ReadOk(JNull, Drop(s, 4))
            ELSE IF StartsWith(s, "true") THEN ReadOk(JBool(TRUE), Drop(s, 4))
            ELSE IF StartsWith(s, "false") THEN ReadOk(JBool(FALSE), Drop(s, 5))
            ELSE IF StartsWith(s, "\"") THEN ReadString("", Tail(s))
            ELSE IF StartsWith(s, "{")
            THEN IF StartsWith(TrimStart(Tail(s)), "}")
                 THEN ReadOk(JEmpty, Tail(TrimStart(Tail(s))))
                 ELSE ReadMembers(JEmpty, TrimStart(Tail(s)))
            ELSE IF NumberLen(s) > 0
            THEN ReadOk(ParseJsonInt(SubSeq(s, 1, NumberLen(s))), Drop(s, NumberLen(s)))
            ELSE ReadErr
    IN  value_at(TrimStart(text))

\* from_str: one value, then nothing but white space (Deserializer::end).
JsonFromStr(text) ==
    LET ended(r) == IF r.ok /\ TrimStart(r.rest) = "" THEN ReadOk(r.v, "") ELSE ReadErr
    IN  ended(ReadValue(text))

(***************************************************************************)
(* Serialisers: serde_json::to_string, serde_urlencoded::to_string and     *)
(* serde_qs::to_string of a serde_json::Value.                             *)
(***************************************************************************)
RECURSIVE Join(_, _)
\* The texts of a sequence joined by sep.
Join(parts, sep) ==
    IF Len(parts) = 0 THEN ""
    ELSE IF Len(parts) = 1 THEN parts[1]
    ELSE parts[1] \o sep \o Join(Tail(parts), sep)

RECURSIVE EscapeJson(_)
\* serde_json's string escaping, for the quote and the backslash.
EscapeJson(s) ==
    IF s = "" THEN ""
    ELSE LET c == Char(s, 1)
         IN  (IF c = "\"" \/ c = "\\" THEN "\\" \o c ELSE c) \o EscapeJson(Tail(s))

\* The text of a Number or Bool, the same in JSON, form and query encodings.
PlainText(v) ==
    IF v.t = "num" THEN (IF v.n < 0 THEN "-" \o NatToStr(0 - v.n) ELSE NatToStr(v.n))
    ELSE IF v.t = "float" THEN v.s
    ELSE IF v.n = 1 THEN "true" ELSE "false"

RECURSIVE ToJson(_)
\* serde_json::to_string: compact JSON text.
ToJson(v) ==
    IF v.t = "null" THEN "null"
    ELSE IF v.t = "str" THEN "\"" \o EscapeJson(v.s) \o "\""
    ELSE IF v.t = "obj"
    THEN "{" \o Join([i \in 1..Len(v.o) |->
                         "\"" \o EscapeJson(v.o[i].k) \o "\":" \o ToJson(v.o[i].v)], ",")
             \o "}"
    ELSE PlainText(v)

RECURSIVE FormEncode(_)
\* form_urlencoded::byte_serialize: alphanumerics and * - . _ are kept, a space
\* becomes +, every other byte is percent-encoded as %XX.
FormEncode(s) ==
    IF s = "" THEN ""
    ELSE LET c == Char(s, 1)
         IN  (IF Contains(Upper \o Lower \o DecDigits \o "*-._", c) THEN c
              ELSE IF c = " " THEN "+"
              ELSE "%" \o Char(HexDigits, (Code(c) \div 16) + 1)
                       \o Char(HexDigits, (Code(c) % 16) + 1)) \o FormEncode(Tail(s))

\* The text a form or query pair carries for a scalar that is not Null.
ScalarText(v) == IF v.t = "str" THEN v.s ELSE PlainText(v)

\* Result of a fallible conversion to text: [ok, s].
TextOk(s) == [ok |-> TRUE, s |-> s]
TextErr == [ok |-> FALSE, s |-> ""]

\* serde_urlencoded::to_string of an object: key=value pairs joined by &. A value
\* that is Null, a map or a sequence is an "unsupported value" error.
UrlEncoded(v) ==
    IF \E i \in 1..Len(v.o) : v.o[i].v.t \in {"null", "obj"}
    THEN TextErr
    ELSE TextOk(Join([i \in 1..Len(v.o) |->
                        FormEncode(v.o[i].k) \o "=" \o FormEncode(ScalarText(v.o[i].v))],
                     "&"))

RECURSIVE QsPairs(_, _)
\* serde_qs: the pairs of the entries of o under the key prefix (no prefix at top
\* level); a nested object extends the key to prefix[key], a Null is written "key=".
QsPairs(prefix, o) ==
    IF Len(o) = 0 THEN <<>>
    ELSE LET e == o[1]
             key == IF prefix = "" THEN FormEncode(e.k)
                    ELSE prefix \o "[" \o FormEncode(e.k) \o "]"
             here == IF e.v.t = "obj" THEN QsPairs(key, e.v.o)
                     ELSE IF e.v.t = "null" THEN <<key \o "=">>
                     ELSE <<key \o "=" \o FormEncode(ScalarText(e.v))>>
         IN  here \o QsPairs(prefix, Tail(o))

\* serde_qs::to_string
QsToString(v) == Join(QsPairs("", v.o), "&")

(***************************************************************************)
(* reqwest::Url, on texts that are already in the form Url prints (scheme, *)
(* host, non-empty path, no fragment): base is everything before the       *)
(* query, hasq/q the query string.                                         *)
(***************************************************************************)
MkUrl(base, hasq, q) == [base |-> base, hasq |-> hasq, q |-> q]

\* Url::set_query(None)
UrlClearQuery(u) == MkUrl(u.base, FALSE, "")

\* Url::set_query(Some(q)): replaces the query string. The characters Url would
\* percent-encode here (space, quote, #, <, >) never occur in a serialised query.
UrlSetQuery(u, q) == MkUrl(u.base, TRUE, q)

\* Url::query
UrlQuery(u) == IF u.hasq THEN u.q ELSE ""

\* From<Url> for String / Url::as_str
UrlToString(u) == IF u.hasq THEN u.base \o "?" \o u.q ELSE u.base

\* Url::parse: a text without a scheme is a relative URL and an error. [ok, url]
UrlParse(text) ==
    LET scheme == BeforeFirst(text, ":")
        valid == /\ Contains(text, ":")
                 /\ scheme # ""
                 /\ IsAlpha(Char(scheme, 1))
                 /\ AllChars(scheme, Upper \o Lower \o DecDigits \o "+-.")
    IN  IF valid
        THEN [ok |-> TRUE,
              url |-> MkUrl(BeforeFirst(text, "?"), Contains(text, "?"), AfterFirst(text, "?"))]
        ELSE [ok |-> FALSE, url |-> MkUrl("", FALSE, "")]

RECURSIVE SplitOn(_, _)
\* str::split(c), as a sequence of texts.
SplitOn(s, c) ==
    IF Contains(s, c) THEN <<BeforeFirst(s, c)>> \o SplitOn(AfterFirst(s, c), c)
    ELSE <<s>>

HexVal(c) ==
    IF Contains(HexDigits, c) THEN IndexOf(HexDigits, c) - 1
    ELSE IndexOf("0123456789abcdef", c) - 1

IsHex(c) == Contains(HexDigits, c) \/ Contains("abcdef", c)

RECURSIVE FormDecode(_)
\* form_urlencoded's decoding of a name or value: + is a space, %XX is a byte.
FormDecode(s) ==
    IF s = "" THEN ""
    ELSE IF Char(s, 1) = "+" THEN " " \o FormDecode(Tail(s))
    ELSE IF Char(s, 1) = "%" /\ Len(s) >= 3 /\ IsHex(Char(s, 2)) /\ IsHex(Char(s, 3))
    THEN CharOf(16 * HexVal(Char(s, 2)) + HexVal(Char(s, 3)))
             \o FormDecode(SubSeq(s, 4, Len(s)))
    ELSE Char(s, 1) \o FormDecode(Tail(s))

\* Url::query_pairs: the decoded (name, value) pairs of the query string, in order;
\* empty pieces between & are skipped, a piece without = has an empty value.
QueryPairs(u) ==
    LET pieces == SelectSeq(SplitOn(UrlQuery(u), "&"), LAMBDA x : x # "")
    IN  [i \in 1..Len(pieces) |->
            <<FormDecode(BeforeFirst(pieces[i], "=")), FormDecode(AfterFirst(pieces[i], "="))>>]

\* Url::query_pairs_mut().extend_pairs: appends encoded pairs to the query string
\* the URL already has.
UrlAppendPairs(u, encoded) ==
    IF encoded = "" THEN MkUrl(u.base, TRUE, UrlQuery(u))
    ELSE IF UrlQuery(u) = "" THEN MkUrl(u.base, TRUE, encoded)
    ELSE MkUrl(u.base, TRUE, u.q \o "&" \o encoded)

CONTENT_TYPE == "content-type"

\* HeaderName::from_str: the characters of an HTTP token, upper case mapped to
\* lower case. [ok, s]
HeaderNameFromStr(key) ==
    IF key # "" /\ AllChars(key, Upper \o Lower \o DecDigits \o "!#$%&'*+-.^_|~")
    THEN TextOk(ToLower(key))
    ELSE TextErr

\* HeaderValue::from_str: visible ASCII, space and tab only. [ok, s]
HeaderValueFromStr(value) ==
    IF Contains(value, "\n") \/ Contains(value, "\r") THEN TextErr ELSE TextOk(value)

\* HeaderMap::insert: replaces the value of a name already held, appends otherwise.
HeaderInsert(h, k, v) ==
    IF HasKey(h, k)
    THEN [i \in 1..Len(h) |-> IF h[i].k = k THEN [k |-> k, v |-> v] ELSE h[i]]
    ELSE Append(h, [k |-> k, v |-> v])

\* Option<String>: [some, s]
Some(s) == [some |-> TRUE, s |-> s]
None == [some |-> FALSE, s |-> ""]

\* A faulty get_content_type: the whole header value, parameters included.
get_content_type_Whole(headers) ==
    IF HasKey(headers, CONTENT_TYPE) THEN Some(Get(headers, CONTENT_TYPE)) ELSE None

\* get_content_type: the Content-Type header up to its first ';'.
get_content_type(headers) ==
    IF HasKey(headers, CONTENT_TYPE)
    THEN Some(BeforeFirst(Get(headers, CONTENT_TYPE), ";"))
    ELSE None

(***************************************************************************)
(* Overrides: KeyVal, ExtraArgs and the grouping of a Vec<KeyVal>.         *)
(***************************************************************************)
KeyValType == {"Query", "Header", "Body"}

KeyVal(key_type, key, value) == [key_type |-> key_type, key |-> key, value |-> value]

\* The (key, value) pairs of the tokens of one kind, in the order given.
PairsOf(kvs, key_type) ==
    LET sel == SelectSeq(kvs, LAMBDA a : a.key_type = key_type)
    IN  [i \in 1..Len(sel) |-> <<sel[i].key, sel[i].value>>]

\* A faulty grouping: each token is put at the front of the vector of its kind.
ExtraArgsFrom_Reversed(kvs) ==
    LET rev(q) == [i \in 1..Len(q) |-> q[Len(q) + 1 - i]]
    IN  [headers |-> rev(PairsOf(kvs, "Header")),
         query |-> rev(PairsOf(kvs, "Query")),
         body |-> rev(PairsOf(kvs, "Body"))]

\* impl From<Vec<KeyVal>> for ExtraArgs: each token is pushed on the vector of its
\* kind, in the order of the input.
ExtraArgsFrom(kvs) ==
    [headers |-> PairsOf(kvs, "Header"),
     query |-> PairsOf(kvs, "Query"),
     body |-> PairsOf(kvs, "Body")]

\* ExtraArgs::default
NoArgs == [headers |-> <<>>, query |-> <<>>, body |-> <<>>]

\* impl IntoIterator for ExtraArgs: the three kinds in the order generate visits them.
ArgsIter(args) ==
    <<<<"Header", args.headers>>, <<"Query", args.query>>, <<"Body", args.body>>>>

\* str::trim: s without its leading and trailing white space.
Trim(s) ==
    LET kept == {i \in 1..Len(s) : ~IsSpace(Char(s, i))}
        first == CHOOSE i \in kept : \A j \in kept : i <= j
        last == CHOOSE i \in kept : \A j \in kept : j <= i
    IN  IF kept = {} THEN "" ELSE SubSeq(s, first, last)

\* A faulty classification: the token is split on its last `=`.
parse_key_value_SplitLast(s) ==
    LET at == CHOOSE i \in 1..Len(s) :
                  Char(s, i) = "=" /\ \A j \in (i + 1)..Len(s) : Char(s, j) # "="
        classified(key, value) ==
            IF key # "" /\ Char(key, 1) = "%"
            THEN [ok |-> TRUE, kv |-> KeyVal("Header", Tail(key), value)]
            ELSE IF key # "" /\ Char(key, 1) = "@"
            THEN [ok |-> TRUE, kv |-> KeyVal("Body", Tail(key), value)]
            ELSE IF key # "" /\ IsAlpha(Char(key, 1))
            THEN [ok |-> TRUE, kv |-> KeyVal("Query", key, value)]
            ELSE [ok |-> FALSE, kv |-> KeyVal("", "", "")]
    IN  IF ~Contains(s, "=") THEN [ok |-> FALSE, kv |-> KeyVal("", "", "")]
        ELSE classified(Trim(SubSeq(s, 1, at - 1)), Trim(SubSeq(s, at + 1, Len(s))))

\* parse_key_value: s.splitn(2, '='), both parts trimmed, a second part required;
\* the first character of the key decides the kind, and % and @ are cut from the
\* key (&key[1..]). [ok, kv]
parse_key_value(s) ==
    LET classified(key, value) ==
            IF key # "" /\ Char(key, 1) = "%"
            THEN [ok |-> TRUE, kv |-> KeyVal("Header", Tail(key), value)]
            ELSE IF key # "" /\ Char(key, 1) = "@"
            THEN [ok |-> TRUE, kv |-> KeyVal("Body", Tail(key), value)]
            ELSE IF key # "" /\ IsAlpha(Char(key, 1))
            THEN [ok |-> TRUE, kv |-> KeyVal("Query", key, value)]
            ELSE [ok |-> FALSE, kv |-> KeyVal("", "", "")]
    IN  IF ~Contains(s, "=") THEN [ok |-> FALSE, kv |-> KeyVal("", "", "")]
        ELSE classified(Trim(BeforeFirst(s, "=")), Trim(AfterFirst(s, "=")))

(***************************************************************************)
(* RequestProfile.  params and body are Option<Value>: NoneValue is None.  *)
(***************************************************************************)
NoneValue == [t |-> "none", n |-> 0, s |-> "", o |-> <<>>]

\* RequestProfile::new
NewProfile(method, url, params, headers, body) ==
    [method |-> method, url |-> url, params |-> params, headers |-> headers, body |-> body]

\* A faulty default: the empty object also when the profile has a value.
UnwrapOrEmpty_Always(v) == JEmpty

\* Option::unwrap_or_else(|| json!({}))
UnwrapOrEmpty(v) == IF v = NoneValue THEN JEmpty ELSE v

\* Result of generate: [ok, err, header, query, body], body the serialised text.
GenOk(header, query, body) ==
    [ok |-> TRUE, err |-> "", header |-> header, query |-> query, body |-> body]
GenErr(err) ==
    [ok |-> FALSE, err |-> err, header |-> <<>>, query |-> JEmpty, body |-> ""]

RECURSIVE InsertHeaders(_, _)
\* generate, the loop of the Header arm: insert(HeaderName::from_str(key)?,
\* HeaderValue::from_str(value)?) for each pair in turn. [ok, err, h]
InsertHeaders(h, pairs) ==
    IF Len(pairs) = 0 THEN [ok |-> TRUE, err |-> "", h |-> h]
    ELSE LET name == HeaderNameFromStr(pairs[1][1])
             val == HeaderValueFromStr(pairs[1][2])
         IN  IF ~name.ok THEN [ok |-> FALSE, err |-> "InvalidHeaderName", h |-> h]
             ELSE IF ~val.ok THEN [ok |-> FALSE, err |-> "InvalidHeaderValue", h |-> h]
             ELSE InsertHeaders(HeaderInsert(h, name.s, val.s), Tail(pairs))

\* A faulty default: application/json is put in whatever the map holds.
DefaultContentType_Always(h) == HeaderInsert(h, CONTENT_TYPE, "application/json")

\* generate, the end of the Header arm: application/json when, after the overrides,
\* the map holds no Content-Type.
DefaultContentType(h) ==
    IF HasKey(h, CONTENT_TYPE) THEN h ELSE HeaderInsert(h, CONTENT_TYPE, "application/json")

\* A faulty parse: the text is kept as a JSON string.
ParseValue_AsString(text) == ReadOk(JStr(text), "")

\* value.parse()? of generate and from_str: String::parse::<serde_json::Value>.
ParseValue(text) == JsonFromStr(text)

RECURSIVE ApplyPairs(_, _)
\* generate, the loop of the Query and Body arms: obj[key] = value.parse()? for
\* each pair in turn. [ok, v]
ApplyPairs(obj, pairs) ==
    IF Len(pairs) = 0 THEN [ok |-> TRUE, v |-> obj]
    ELSE LET parsed == ParseValue(pairs[1][2])
         IN  IF ~parsed.ok THEN [ok |-> FALSE, v |-> obj]
             ELSE ApplyPairs(SetKey(obj, pairs[1][1], parsed.v), Tail(pairs))

\* A faulty match: a body is encoded as JSON whatever the content type.
Encode_AnyType(header, query, body) == GenOk(header, query, ToJson(body))

\* generate, the match on the content type.
Encode(header, query, body) ==
    LET form(encoded) ==
            IF encoded.ok THEN GenOk(header, query, encoded.s) ELSE GenErr("Serialize")
        encode_as(content_type) ==
            IF content_type = Some("application/json")
            THEN GenOk(header, query, ToJson(body))
            ELSE IF content_type \in {Some("application/x-www-form-urlencoded"),
                                      Some("multipart/form-data")}
            THEN form(UrlEncoded(body))
            ELSE GenErr("UnsupportedContentType")
    IN  encode_as(get_content_type(header))

\* RequestProfile::generate: the three kinds are visited in the order of the
\* iterator and the first error is returned.
generate(self, args) ==
    LET encoded(hs, qs, bs) ==
            IF ~hs.ok THEN GenErr(hs.err)
            ELSE IF ~qs.ok THEN GenErr("JsonParse")
            ELSE IF ~bs.ok THEN GenErr("JsonParse")
            ELSE Encode(DefaultContentType(hs.h), qs.v, bs.v)
        visit(it) ==
            encoded(InsertHeaders(self.headers, it[1][2]),
                    ApplyPairs(UnwrapOrEmpty(self.params), it[2][2]),
                    ApplyPairs(UnwrapOrEmpty(self.body), it[3][2]))
    IN  visit(ArgsIter(args))

\* RequestProfile::get_url: a merged query that is not empty replaces the query
\* of the URL. [ok, s]
get_url(self, args) ==
    LET url_of(g) ==
            IF ~g.ok THEN TextErr
            ELSE IF Len(g.query.o) # 0
            THEN TextOk(UrlToString(UrlSetQuery(self.url, QsToString(g.query))))
            ELSE TextOk(UrlToString(self.url))
    IN  url_of(generate(self, args))

\* The request RequestProfile::send builds: [ok, err, method, url, headers, body].
ReqOk(method, url, headers, body) ==
    [ok |-> TRUE, err |-> "", method |-> method, url |-> url, headers |-> headers,
     body |-> body]
ReqErr(err) ==
    [ok |-> FALSE, err |-> err, method |-> "", url |-> "", headers |-> <<>>, body |-> ""]

\* RequestBuilder::query: the pairs of the query object are appended, form-encoded,
\* to the query string of the URL; a query string left empty is removed. [ok, url]
BuilderQuery(url, query) ==
    LET put(ok, u) == [ok |-> ok, url |-> IF UrlQuery(u) = "" THEN UrlClearQuery(u) ELSE u]
        append(encoded) == put(encoded.ok, UrlAppendPairs(url, encoded.s))
    IN  append(UrlEncoded(query))

\* RequestProfile::send up to build(): the request that is handed to the client.
BuildRequest(self, args) ==
    LET build(g, q) ==
            IF ~q.ok THEN ReqErr("Builder")
            ELSE ReqOk(self.method, UrlToString(q.url), g.header, g.body)
        request_of(g) ==
            IF ~g.ok THEN ReqErr(g.err) ELSE build(g, BuilderQuery(self.url, g.query))
    IN  request_of(generate(self, args))

\* impl ValidateConfig for RequestProfile: "" when valid, else the message.
ValidateProfile(self) ==
    IF self.params # NoneValue /\ ~IsObject(self.params) THEN "params must be an object"
    ELSE IF self.body # NoneValue /\ ~IsObject(self.body) THEN "body must be an object"
    ELSE ""

RECURSIVE LiftPairs(_, _)
\* from_str, the loop over query_pairs: params[k] = v.parse()?. [ok, v]
LiftPairs(params, pairs) ==
    IF Len(pairs) = 0 THEN [ok |-> TRUE, v |-> params]
    ELSE LET parsed == ParseValue(pairs[1][2])
         IN  IF ~parsed.ok THEN [ok |-> FALSE, v |-> params]
             ELSE LiftPairs(SetKey(params, pairs[1][1], parsed.v), Tail(pairs))

NoProfile == NewProfile("", MkUrl("", FALSE, ""), NoneValue, <<>>, NoneValue)

\* A faulty from_str: the query string is left on the URL.
ProfileFromStr_KeepQuery(text) ==
    LET lifted(parsed, params) ==
            IF ~parsed.ok \/ ~params.ok THEN [ok |-> FALSE, profile |-> NoProfile]
            ELSE [ok |-> TRUE,
                  profile |-> NewProfile("GET", parsed.url, params.v, <<>>, NoneValue)]
        from_url(parsed) == lifted(parsed, LiftPairs(JEmpty, QueryPairs(parsed.url)))
    IN  from_url(UrlParse(text))

\* impl FromStr for RequestProfile: [ok, profile]
ProfileFromStr(text) ==
    LET lifted(parsed, params) ==
            IF ~parsed.ok \/ ~params.ok THEN [ok |-> FALSE, profile |-> NoProfile]
            ELSE [ok |-> TRUE,
                  profile |-> NewProfile("GET", UrlClearQuery(parsed.url), params.v, <<>>,
                                         NoneValue)]
        from_url(parsed) == lifted(parsed, LiftPairs(JEmpty, QueryPairs(parsed.url)))
    IN  from_url(UrlParse(text))

(***************************************************************************)
(* Response reduction: the status line, the headers and the body of a      *)
(* response as text.  A response is [version, status, headers, text]:      *)
(* headers the entries [k, v] in the order received, text the body.        *)
(***************************************************************************)
Response(version, status, headers, body) ==
    [version |-> version, status |-> status, headers |-> headers, text |-> body]

RECURSIVE ToJsonPretty(_, _)
\* serde_json::to_string_pretty: an object with members has one member per line,
\* two more spaces of indent than its braces; every other value as to_string.
ToJsonPretty(v, indent) ==
    IF v.t = "obj" /\ Len(v.o) > 0
    THEN "{\n"
         \o Join([i \in 1..Len(v.o) |->
                     indent \o "  \"" \o EscapeJson(v.o[i].k) \o "\": "
                            \o ToJsonPretty(v.o[i].v, indent \o "  ")], ",\n")
         \o "\n" \o indent \o "}"
    ELSE ToJson(v)

RECURSIVE RemoveKeys_Deep(_, _)
\* A faulty filter: the keys listed are removed from nested objects too.
RemoveKeys_Deep(o, skip_body) ==
    LET kept == SelectSeq(o, LAMBDA e : \A i \in 1..Len(skip_body) : skip_body[i] # e.k)
    IN  [i \in 1..Len(kept) |->
            IF kept[i].v.t = "obj"
            THEN [k |-> kept[i].k, v |-> JObj(RemoveKeys_Deep(kept[i].v.o, skip_body))]
            ELSE kept[i]]

RECURSIVE RemoveKeys(_, _)
\* filter_json, the loop over skip_body: obj.remove(k) for each key in turn.
RemoveKeys(o, skip_body) ==
    IF Len(skip_body) = 0 THEN o
    ELSE RemoveKeys(SelectSeq(o, LAMBDA e : e.k # skip_body[1]), Tail(skip_body))

\* filter_json: the keys are removed from an object only, and the value is
\* printed. [ok, s]
filter_json(text, skip_body) ==
    LET printed(json) ==
            IF ~json.ok THEN TextErr
            ELSE IF IsObject(json.v)
            THEN TextOk(ToJsonPretty(JObj(RemoveKeys(json.v.o, skip_body)), ""))
            ELSE TextOk(ToJsonPretty(json.v, ""))
    IN  printed(JsonFromStr(text))

RECURSIVE EscapeQuotes(_)
\* impl Debug for HeaderValue, the loop over the bytes: a quote is written \".
EscapeQuotes(v) ==
    IF v = "" THEN ""
    ELSE (IF Char(v, 1) = "\"" THEN "\\\"" ELSE Char(v, 1)) \o EscapeQuotes(Tail(v))

\* impl Debug for HeaderValue: the value between quotes.
DebugValue(v) == "\"" \o EscapeQuotes(v) \o "\""

RECURSIVE HeaderLines_FirstListed(_, _)
\* A faulty loop: a header is left out only when its name is the first one listed.
HeaderLines_FirstListed(headers, skip_headers) ==
    IF Len(headers) = 0 THEN ""
    ELSE (IF Len(skip_headers) > 0 /\ skip_headers[1] = headers[1].k THEN ""
          ELSE headers[1].k \o ":" \o DebugValue(headers[1].v) \o "\n")
         \o HeaderLines_FirstListed(Tail(headers), skip_headers)

RECURSIVE HeaderLines(_, _)
\* get_header_text, the loop: one line name:value for each header whose name is
\* not in skip_headers.
HeaderLines(headers, skip_headers) ==
    IF Len(headers) = 0 THEN ""
    ELSE (IF \E i \in 1..Len(skip_headers) : skip_headers[i] = headers[1].k THEN ""
          ELSE headers[1].k \o ":" \o DebugValue(headers[1].v) \o "\n")
         \o HeaderLines(Tail(headers), skip_headers)

RECURSIVE HeaderMapIter(_)
\* HeaderMap::iter on the map the client filled by appending each header received:
\* the names in the order of their first value, each name yielded once for each of
\* its values, one after the other.
HeaderMapIter(received) ==
    IF Len(received) = 0 THEN <<>>
    ELSE SelectSeq(received, LAMBDA e : e.k = received[1].k)
         \o HeaderMapIter(SelectSeq(received, LAMBDA e : e.k # received[1].k))

\* get_header_text
get_header_text(res, skip_headers) ==
    HeaderLines(HeaderMapIter(res.headers), skip_headers) \o "\n"

\* get_status_text
get_status_text(res) == res.version \o " " \o res.status

\* A faulty reduction: a JSON body that cannot be parsed is passed through.
get_body_text_Lenient(res, skip_body) ==
    IF get_content_type(res.headers) = Some("application/json")
          /\ JsonFromStr(res.text).ok
    THEN filter_json(res.text, skip_body)
    ELSE TextOk(res.text)

\* get_body_text: [ok, s]
get_body_text(res, skip_body) ==
    IF get_content_type(res.headers) = Some("application/json")
    THEN filter_json(res.text, skip_body)
    ELSE TextOk(res.text)

\* ResponseProfile
ResponseProfile(skip_headers, skip_body) ==
    [skip_headers |-> skip_headers, skip_body |-> skip_body]

\* ResponseExt::get_text: the status, the headers and the body written one after
\* the other. [ok, s]
get_text(res, profile) ==
    LET output(body) ==
            IF ~body.ok THEN TextErr
            ELSE TextOk(get_status_text(res) \o get_header_text(res, profile.skip_headers)
                        \o body.s)
    IN  output(get_body_text(res, profile.skip_body))

(***************************************************************************)
(* Text utilities: highlight_text and diff_text.                           *)
(***************************************************************************)
RECURSIVE LinesWithEndings(_)
\* The lines of a text, each with its line ending; a last line without ending is
\* a line too.
LinesWithEndings(text) ==
    IF text = "" THEN <<>>
    ELSE IF Contains(text, "\n")
    THEN <<BeforeFirst(text, "\n") \o "\n">> \o LinesWithEndings(AfterFirst(text, "\n"))
    ELSE <<text>>

\* highlight_text: each line, ending included, after the escape sequence that sets
\* the colour of the theme (written with ^[ for the escape character) and followed
\* by the line break of writeln.
highlight_text(text, extension, theme) ==
    LET colour == IF theme = Some("base16-mocha.dark") THEN "^[[38;2;208;200;198m"
                  ELSE "^[[38;2;192;197;206m"
        escaped(lines) == Join([i \in 1..Len(lines) |-> colour \o lines[i] \o "\n"], "")
    IN  escaped(LinesWithEndings(text))

\* A faulty Display: the 0-based index is written.
Line_ZeroBased(idx) ==
    IF idx < 0 THEN "    "
    ELSE LET n == NatToStr(idx)
         IN  n \o SubSeq("    ", 1, IF Len(n) < 4 THEN 4 - Len(n) ELSE 0)

\* impl Display for Line: the 1-based number left-aligned in four columns, four
\* blanks for None. idx is the 0-based index, -1 for None.
Line(idx) ==
    IF idx < 0 THEN "    "
    ELSE LET n == NatToStr(idx + 1)
         IN  n \o SubSeq("    ", 1, IF Len(n) < 4 THEN 4 - Len(n) ELSE 0)

\* The context radius diff_text asks of grouped_ops.
ContextLines == 3

\* The width of the separator between two groups.
SeparatorWidth == 80

RECURSIVE LcsLen(_, _)
\* The length of a longest common subsequence of two sequences of lines.
LcsLen(a, b) ==
    IF Len(a) = 0 \/ Len(b) = 0 THEN 0
    ELSE IF a[1] = b[1] THEN 1 + LcsLen(Tail(a), Tail(b))
    ELSE LET max(x, y) == IF x >= y THEN x ELSE y
         IN  max(LcsLen(Tail(a), b), LcsLen(a, Tail(b)))

RECURSIVE Changes(_, _, _, _)
\* TextDiff::from_lines: a shortest edit script from a to b as the sequence of
\* changes [tag, old, new, value], old and new the 0-based indexes (-1 for None);
\* i and j are the indexes of the heads of a and b. Deleted lines come before the
\* inserted lines that replace them.
Changes(a, b, i, j) ==
    IF Len(a) = 0 /\ Len(b) = 0 THEN <<>>
    ELSE IF Len(a) > 0 /\ Len(b) > 0 /\ a[1] = b[1]
    THEN <<[tag |-> "Equal", old |-> i, new |-> j, value |-> a[1]]>>
             \o Changes(Tail(a), Tail(b), i + 1, j + 1)
    ELSE IF Len(b) = 0 \/ (Len(a) > 0 /\ LcsLen(Tail(a), b) >= LcsLen(a, Tail(b)))
    THEN <<[tag |-> "Delete", old |-> i, new |-> -1, value |-> a[1]]>>
             \o Changes(Tail(a), b, i + 1, j)
    ELSE <<[tag |-> "Insert", old |-> -1, new |-> j, value |-> b[1]]>>
             \o Changes(a, Tail(b), i, j + 1)

\* diff_text, one change: the two line numbers, the bar, the sign and the line,
\* with a line break when the line has none.
RenderChange(c) ==
    Line(c.old) \o Line(c.new) \o " |"
        \o (IF c.tag = "Delete" THEN "-" ELSE IF c.tag = "Insert" THEN "+" ELSE " ")
        \o c.value
        \o (IF c.value = "" \/ Char(c.value, Len(c.value)) # "\n" THEN "\n" ELSE "")

\* format!("{:-^1$}", "-", 80)
Separator == Join([i \in 1..SeparatorWidth |-> "-"], "")

\* diff_text, without the styling of the console crate (no escape is written
\* when colours are off). TextDiff::grouped_ops(3) shows the changed lines and the
\* equal lines at most 3 lines away from a changed line; a run of equal lines that
\* is not shown ends one group and starts the next, and a separator is written
\* before every group but the first.
diff_text(text1, text2) ==
    LET shown(cs) ==
            {k \in 1..Len(cs) :
                \E c \in 1..Len(cs) :
                    /\ cs[c].tag # "Equal"
                    /\ k - c <= ContextLines /\ c - k <= ContextLines}
        render(cs, sh) ==
            Join([k \in 1..Len(cs) |->
                    IF k \notin sh THEN ""
                    ELSE (IF (k - 1) \notin sh /\ (\E m \in sh : m < k) THEN Separator
                          ELSE "")
                         \o RenderChange(cs[k])], "")
        grouped(cs) == render(cs, shown(cs))
    IN  grouped(Changes(LinesWithEndings(text1), LinesWithEndings(text2), 0, 0))

(***************************************************************************)
(* The Profile Store: RequestConfig of xreq and DiffConfig of xdiff, maps  *)
(* from profile name to profile, modelled as functions on the names.       *)
(***************************************************************************)
\* DiffProfile
DiffProfile(req1, req2, res) == [req1 |-> req1, req2 |-> req2, res |-> res]

\* impl ValidateConfig for DiffProfile: both requests are validated, req1 first.
ValidateDiffProfile(self) ==
    IF ValidateProfile(self.req1) # "" THEN ValidateProfile(self.req1)
    ELSE ValidateProfile(self.req2)

\* RequestConfig::validate: the names of the profiles whose validation fails. The
\* loop over the HashMap returns at the first of them it meets, in an order that
\* is not specified.
RequestConfigInvalid(profiles) ==
    {n \in DOMAIN profiles : ValidateProfile(profiles[n]) # ""}

\* DiffConfig::validate, likewise.
DiffConfigInvalid(profiles) ==
    {n \in DOMAIN profiles : ValidateDiffProfile(profiles[n]) # ""}

\* The error of a run: [kind, name], kind "" for no error, name the profile the
\* message names.
Failure(kind, name) == [kind |-> kind, name |-> name]
NoFailure == Failure("", "")

\* No store: [some, profiles].
NoConfig == [some |-> FALSE, profiles |-> <<>>]

\* xreq run, the composition of the output: on a terminal the URL, the status and
\* the highlighted headers and body, else the body alone.
XreqOutput(tty, url_text, status, headers, body) ==
    IF tty
    THEN "Url: " \o url_text \o "\n\n" \o status
         \o highlight_text(headers, "yaml", None)
         \o highlight_text(body, "json", Some("base16-mocha.dark"))
    ELSE body

(***************************************************************************)
(* The inputs of the model.                                                *)
(***************************************************************************)
Entry(k, v) == [k |-> k, v |-> v]

\* The valid profiles a document can hold. A URL without and with a query string
\* of its own, with each params value: absent, empty, integers, a string with a
\* space, a nested object beside a null. Each headers value (none, a header that
\* is not Content-Type, each kind of Content-Type) with each body value (absent,
\* flat, with a nested object).
Profiles ==
    LET urls == {MkUrl("http://h/todo", FALSE, ""), MkUrl("http://h/todo", TRUE, "x=9")}
        params == {NoneValue,
                   JEmpty,
                   JObj(<<Entry("a", JNum(1)), Entry("b", JNum(2))>>),
                   JObj(<<Entry("q", JStr("x y"))>>),
                   JObj(<<Entry("f", JObj(<<Entry("id", JNum(1))>>)), Entry("z", JNull)>>)}
        headers == {<<>>,
                    <<Entry("x-token", "abc")>>,
                    <<Entry("content-type", "application/json; charset=utf-8")>>,
                    <<Entry("content-type", "multipart/form-data; boundary=b")>>,
                    <<Entry("content-type", "text/plain")>>}
        bodies == {NoneValue,
                   JObj(<<Entry("id", JNum(1)), Entry("title", JStr("to do"))>>),
                   JObj(<<Entry("meta", JObj(<<Entry("id", JNum(1))>>))>>)}
    IN  {NewProfile("GET", u, p, <<>>, NoneValue) : u \in urls, p \in params}
        \cup
        {NewProfile("POST", MkUrl("http://h/todo", FALSE, ""),
                    JObj(<<Entry("a", JNum(1)), Entry("b", JNum(2))>>), h, d) :
            h \in headers, d \in bodies}
        \cup
        {NewProfile("GET", MkUrl("http://h/todo", FALSE, ""), NoneValue,
                    <<Entry("content-type", "text/plain")>>, NoneValue)}

\* The override tokens of a command line, after classification.
Tokens ==
    {KeyVal("Query", "id", "1"),
     KeyVal("Query", "a", "1"),
     KeyVal("Query", "a", "7"),
     KeyVal("Query", "b", "2"),
     KeyVal("Query", "name", "misky"),
     KeyVal("Header", "Content-Type", "application/x-www-form-urlencoded"),
     KeyVal("Header", "content-type", "text/html; charset=utf-8"),
     KeyVal("Header", "X-Token", "xyz"),
     KeyVal("Body", "title", "\"done\""),
     KeyVal("Body", "id", "true")}

\* The tokens given to -e before classification: each beginning (empty, plain,
\* with a sigil, with a sigil alone, with white space, with another first
\* character) with each rest (no `=`, an empty value, a value, a value with `=`
\* and white space).
RawTokens ==
    {k \o r : k \in {"", "a", "id", "%", "%X-Token", "@", "@id", " a ", " %k", "% k",
                     "@ ", "1a", "-x", "_k", "&a", "  "},
              r \in {"", "=", "=1", " = a=b ", "==", "=%x=@y", "= "}}

\* The URL texts given to from_str.
UrlTexts ==
    {"http://h/todo",
     "http://h/todo?a=1&b=2",
     "http://h/todo?b=2&a=1",
     "http://h/todo?c=3&d=40",
     "http://h/todo?a=007",
     "http://h/todo?name=misky",
     "http://h/todo?q=%22x+y%22&n=null",
     "/todo?a=1"}

\* The profile names of a document.
Names == {"todo", "user"}

\* The profiles of an xreq document: one that can be sent, one whose Content-Type
\* has no encoder, one whose params cannot be sent, and two that are not valid
\* (params a number, body a string).
RunProfiles ==
    {NewProfile("GET", MkUrl("http://h/todo", FALSE, ""),
                JObj(<<Entry("a", JNum(1)), Entry("b", JNum(2))>>), <<>>, NoneValue),
     NewProfile("POST", MkUrl("http://h/todo", FALSE, ""), NoneValue,
                <<Entry("content-type", "text/plain")>>,
                JObj(<<Entry("id", JNum(1))>>)),
     NewProfile("GET", MkUrl("http://h/todo", FALSE, ""),
                JObj(<<Entry("f", JObj(<<Entry("id", JNum(1))>>))>>), <<>>, NoneValue),
     NewProfile("GET", MkUrl("http://h/todo", FALSE, ""), JNum(3), <<>>, NoneValue),
     NewProfile("POST", MkUrl("http://h/todo", FALSE, ""), NoneValue, <<>>, JStr("x"))}

\* The pairs of an xdiff document: both requests can be sent; the second request
\* has no encoder for its Content-Type; the second request is not valid.
DiffProfiles ==
    LET res == ResponseProfile(<<"date">>, <<"id">>)
        req1 == NewProfile("GET", MkUrl("http://h/todo", FALSE, ""),
                           JObj(<<Entry("a", JNum(1))>>), <<>>, NoneValue)
    IN  {DiffProfile(req1,
                     NewProfile("GET", MkUrl("http://g/todo", FALSE, ""), NoneValue, <<>>,
                                NoneValue), res),
         DiffProfile(req1,
                     NewProfile("POST", MkUrl("http://g/todo", FALSE, ""), NoneValue,
                                <<Entry("content-type", "text/plain")>>, NoneValue), res),
         DiffProfile(req1,
                     NewProfile("POST", MkUrl("http://g/todo", FALSE, ""), NoneValue, <<>>,
                                JNum(3)), res)}

\* The content of the configuration file: it may be unreadable, it may be no
\* YAML of the expected shape, else it holds a profile for each of its names.
Document(readable, wellformed, profiles) ==
    [readable |-> readable, wellformed |-> wellformed, profiles |-> profiles]

Documents(mode) ==
    {Document(FALSE, FALSE, <<>>), Document(TRUE, FALSE, <<>>)}
    \cup {Document(TRUE, TRUE, f) :
            f \in [Names -> IF mode = "xdiff" THEN DiffProfiles ELSE RunProfiles]}

\* The override tokens of a run, after classification.
RunTokens ==
    {KeyVal("Query", "a", "7"),
     KeyVal("Query", "name", "misky"),
     KeyVal("Body", "id", "true")}

\* The values of extra_params: every vector of at most MaxTokens tokens.
RunParams == UNION {[1..k -> RunTokens] : k \in 0..MaxTokens}

\* What the server answers: JSON bodies, a body that is no JSON under a JSON
\* content type, and a text body.
Responses ==
    {Response("HTTP/1.1", "200 OK",
              <<Entry("content-type", "application/json; charset=utf-8"),
                Entry("date", "Mon")>>,
              "{\"id\":1,\"title\":\"todo\"}"),
     Response("HTTP/1.1", "200 OK",
              <<Entry("content-type", "application/json; charset=utf-8"),
                Entry("date", "Tue")>>,
              "{\"id\":2,\"title\":\"done\"}"),
     Response("HTTP/1.1", "200 OK",
              <<Entry("content-type", "application/json")>>,
              "<html>"),
     Response("HTTP/1.1", "404 Not Found",
              <<Entry("content-type", "text/plain")>>,
              "not found\n")}

\* The responses and Response Profiles a reduction is applied to. Headers: a JSON
\* type with a parameter, a JSON type with a header received twice around another
\* one, two other types, no header at all. Bodies: a flat object, an object with a
\* nested object that has keys of the same names, an object whose keys are not in
\* order, a scalar, and two texts that are no JSON.
ReduceInputs ==
    LET headers == {<<Entry("content-type", "application/json; charset=utf-8"),
                      Entry("date", "Mon")>>,
                    <<Entry("content-type", "application/json"),
                      Entry("set-cookie", "a=1"),
                      Entry("date", "Mon"),
                      Entry("set-cookie", "b=\"2\"")>>,
                    <<Entry("content-type", "text/plain"), Entry("x-id", "7")>>,
                    <<Entry("content-type", "text/json; charset=utf-8")>>,
                    <<>>}
        bodies == {"{\"id\":1,\"title\":\"todo\"}",
                   "{\"id\":1,\"meta\":{\"id\":2,\"title\":\"x\"},\"title\":\"todo\"}",
                   "{ \"title\": \"b\", \"id\": {\"id\": null} }",
                   "7",
                   "<html>",
                   "not found\n"}
        skip_headers == {<<>>, <<"date">>, <<"set-cookie", "date">>}
        skip_body == {<<>>, <<"id">>, <<"title", "id">>, <<"zz">>}
    IN  {<<Response("HTTP/1.1", "200 OK", h, b), ResponseProfile(sh, sb)>> :
            h \in headers, b \in bodies, sh \in skip_headers, sb \in skip_body}

\* The pairs of texts diff_text is applied to, each in both directions: equal
\* texts; a line deleted; a last line without line break, changed or only given
\* its line break; an empty text; five equal lines before a change; changes five,
\* seven and eight equal lines apart.
DiffInputs ==
    LET pairs == {<<"a\nb\n", "a\nb\n">>,
                  <<"a\nb\nc\n", "a\nc\n">>,
                  <<"a\nb", "a\nc">>,
                  <<"a\nb", "a\nb\n">>,
                  <<"", "a\n">>,
                  <<"1\n2\n3\n4\n5\nx\n", "1\n2\n3\n4\n5\ny\n">>,
                  <<"x\n1\n2\n3\n4\n5\ny\n", "1\n2\n3\n4\n5\n">>,
                  <<"x\n1\n2\n3\n4\n5\n6\n7\ny\n", "1\n2\n3\n4\n5\n6\n7\n">>,
                  <<"x\n1\n2\n3\n4\n5\n6\n7\n8\ny\n", "X\n1\n2\n3\n4\n5\n6\n7\n8\nY\n">>}
    IN  pairs \cup {<<p[2], p[1]>> : p \in pairs}

\* The two responses and the Response Profile of a comparison. Headers: two JSON
\* types that differ in the parameter, the date and a cookie; a text type; a JSON
\* type after another header; a cookie received twice. Bodies: objects that differ
\* in id, in title, in the spacing and the order of the keys, in a nested id; an
\* array in two spacings; a text that is no JSON. One response has another status.
\* Response Profiles: nothing skipped; a header name in another case; names that
\* leave the content type in the text; every name that differs.
CompareInputs ==
    LET headers == {<<Entry("content-type", "application/json"), Entry("date", "Mon")>>,
                    <<Entry("content-type", "application/json; charset=utf-8"),
                      Entry("date", "Tue"),
                      Entry("set-cookie", "a=1")>>,
                    <<Entry("content-type", "text/plain"), Entry("date", "Mon")>>,
                    <<Entry("x-id", "7"),
                      Entry("content-type", "application/json"),
                      Entry("date", "Mon")>>,
                    <<Entry("set-cookie", "a=1"),
                      Entry("content-type", "application/json"),
                      Entry("set-cookie", "b=2"),
                      Entry("date", "Wed")>>}
        bodies == {"{\"id\":1,\"title\":\"todo\"}",
                   "{\"id\":2,\"title\":\"todo\"}",
                   "{ \"title\": \"todo\" }",
                   "{\"title\":\"done\",\"id\":1}",
                   "{\"id\":1,\"meta\":{\"id\":1},\"title\":\"todo\"}",
                   "{\"meta\":{\"id\":2},\"title\":\"todo\"}",
                   "[1,2]",
                   "[1, 2]",
                   "<html>"}
        profiles == {ResponseProfile(<<>>, <<>>),
                     ResponseProfile(<<"Date">>, <<"id">>),
                     ResponseProfile(<<"date", "set-cookie">>, <<"title", "id">>),
                     ResponseProfile(<<"set-cookie", "date", "content-type">>, <<"id">>)}
        received == {Response("HTTP/1.1", "200 OK", h, b) : h \in headers, b \in bodies}
                    \cup {Response("HTTP/1.1", "404 Not Found",
                                   <<Entry("content-type", "application/json"),
                                     Entry("date", "Mon")>>,
                                   "{\"id\":1,\"title\":\"todo\"}")}
    IN  {<<res1, res2, res>> : res1 \in received, res2 \in received, res \in profiles}

(***************************************************************************)
(* The engine as a state machine: a profile is taken from a document or    *)
(* parsed from a URL, the override tokens are grouped, and generate,       *)
(* get_url and send are applied to the two.                                *)
(***************************************************************************)
VARIABLES
    pc,         \* the step reached
    text,       \* the URL text given to from_str, "" for a profile of a document
    profile,    \* the RequestProfile
    kvs,        \* the Vec<KeyVal> of the command line
    args,       \* the ExtraArgs grouped from kvs
    merged,     \* the result of generate(profile, args)
    url,        \* the result of get_url(profile, args)
    request,    \* the request send(profile, args) builds
    rpc,            \* the statement of run that is next
    mode,           \* the binary invoked: "xreq" or "xdiff"
    document,       \* the content of the configuration file
    name,           \* args.profile
    extra_params,   \* args.extra_params
    tty,            \* atty::is(Stream::Stdout)
    config,         \* the Profile Store load_yaml returned
    selected,       \* the profile get_profile returned
    extra_args,     \* the ExtraArgs of the run
    url_text,       \* the url of xreq's run
    issued,         \* the requests handed to the HTTP client, in order
    responses,      \* the responses received, in order
    texts,          \* the texts reduced from the responses, in order
    result,         \* the text diff returned
    stdout,         \* what was written to standard output, in order
    failure,        \* the error run returned
    stages,         \* the stages of run executed so far, in order
    stderr,         \* the errors written to standard error, in order
    exit_status,    \* <<>> while the process runs, then <<its exit status>>
    called,         \* the function applied to an input of its own, "" before
    input,          \* the arguments it was applied to
    output          \* what it returned

engineVars == <<pc, text, profile, kvs, args, merged, url, request>>

runVars == <<rpc, mode, document, name, extra_params, tty, config, selected, extra_args,
             url_text, issued, responses, texts, result, stdout, failure, stages>>

mainVars == <<stderr, exit_status>>

callVars == <<called, input, output>>

vars == <<engineVars, runVars, mainVars, callVars>>

Init ==
    /\ pc = "start"
    /\ text = ""
    /\ profile = NoProfile
    /\ kvs = <<>>
    /\ args = NoArgs
    /\ merged = GenErr("")
    /\ url = TextErr
    /\ request = ReqErr("")
    /\ rpc = "idle"
    /\ mode = ""
    /\ document = Document(FALSE, FALSE, <<>>)
    /\ name = ""
    /\ extra_params = <<>>
    /\ tty = FALSE
    /\ config = NoConfig
    /\ selected = NoProfile
    /\ extra_args = NoArgs
    /\ url_text = ""
    /\ issued = <<>>
    /\ responses = <<>>
    /\ texts = <<>>
    /\ result = ""
    /\ stdout = <<>>
    /\ failure = NoFailure
    /\ stages = <<>>
    /\ stderr = <<>>
    /\ exit_status = <<>>
    /\ called = ""
    /\ input = <<>>
    /\ output = <<>>

\* A profile of a validated document is selected.
SelectProfile ==
    /\ pc = "start"
    /\ \E p \in Profiles : profile' = p
    /\ pc' = "profile"
    /\ UNCHANGED <<text, kvs, args, merged, url, request>>
    /\ UNCHANGED <<runVars, mainVars, callVars>>

\* RequestProfile::from_str on a URL text; an error ends the run.
FromStr ==
    /\ pc = "start"
    /\ \E t \in UrlTexts :
        /\ text' = t
        /\ profile' = ProfileFromStr(t).profile
        /\ pc' = IF ProfileFromStr(t).ok THEN "profile" ELSE "failed"
    /\ UNCHANGED <<kvs, args, merged, url, request>>
    /\ UNCHANGED <<runVars, mainVars, callVars>>

\* One more override token on the command line.
AddToken ==
    /\ pc = "profile"
    /\ Len(kvs) < MaxTokens
    /\ \E t \in Tokens : kvs' = Append(kvs, t)
    /\ UNCHANGED <<pc, text, profile, args, merged, url, request>>
    /\ UNCHANGED <<runVars, mainVars, callVars>>

\* ExtraArgs::from(kvs)
FromVec ==
    /\ pc = "profile"
    /\ args' = ExtraArgsFrom(kvs)
    /\ pc' = "args"
    /\ UNCHANGED <<text, profile, kvs, merged, url, request>>
    /\ UNCHANGED <<runVars, mainVars, callVars>>

\* profile.generate(&args)
Generate ==
    /\ pc = "args"
    /\ merged' = generate(profile, args)
    /\ pc' = "merged"
    /\ UNCHANGED <<text, profile, kvs, args, url, request>>
    /\ UNCHANGED <<runVars, mainVars, callVars>>

\* profile.get_url(&args)
GetUrl ==
    /\ pc = "merged"
    /\ url' = get_url(profile, args)
    /\ pc' = "url"
    /\ UNCHANGED <<text, profile, kvs, args, merged, request>>
    /\ UNCHANGED <<runVars, mainVars, callVars>>

\* profile.send(&args), up to the request handed to the client
Send ==
    /\ pc = "url"
    /\ request' = BuildRequest(profile, args)
    /\ pc' = "sent"
    /\ UNCHANGED <<text, profile, kvs, args, merged, url>>
    /\ UNCHANGED <<runVars, mainVars, callVars>>

Next == SelectProfile \/ FromStr \/ AddToken \/ FromVec \/ Generate \/ GetUrl \/ Send

Spec == Init /\ [][Next]_vars

(***************************************************************************)
(* The run command of the two binaries, statement by statement: each `?`   *)
(* of run is a step that either goes on or returns the error.              *)
(***************************************************************************)
\* `?` on an Err: run returns the error, nothing else changes.
Fail(stage, kind, who) ==
    /\ failure' = Failure(kind, who)
    /\ stages' = Append(stages, stage)
    /\ rpc' = "failed"

\* A statement of run completed: the next one is at `to`.
Pass(stage, to) ==
    /\ stages' = Append(stages, stage)
    /\ rpc' = to
    /\ UNCHANGED failure

\* The command line `run -p name -e ... -c file` of one of the binaries; the name
\* may be missing from the document.
Invoke ==
    /\ rpc = "idle"
    /\ \E m \in {"xreq", "xdiff"} :
        /\ mode' = m
        /\ \E d \in Documents(m) : document' = d
    /\ \E n \in Names \cup {"none"} : name' = n
    /\ \E e \in RunParams : extra_params' = e
    /\ \E t \in BOOLEAN : tty' = t
    /\ rpc' = "load"
    /\ UNCHANGED <<config, selected, extra_args, url_text, issued, responses, texts,
                   result, stdout, failure, stages>>
    /\ UNCHANGED <<engineVars, mainVars, callVars>>

\* A faulty load: the store is returned without config.validate().
LoadYaml_Unvalidated ==
    /\ rpc = "load"
    /\ IF ~document.readable
       THEN Fail("load", "Io", "") /\ UNCHANGED config
       ELSE IF ~document.wellformed
       THEN Fail("load", "ConfigParse", "") /\ UNCHANGED config
       ELSE Pass("load", "lookup") /\ config' = [some |-> TRUE, profiles |-> document.profiles]
    /\ UNCHANGED <<mode, document, name, extra_params, tty, selected, extra_args,
                   url_text, issued, responses, texts, result, stdout>>
    /\ UNCHANGED <<engineVars, mainVars, callVars>>

\* LoadConfig::load_yaml: read_to_string(path)?, serde_yaml::from_str(content)?,
\* config.validate()?, Ok(config). A validation error names the profile the loop
\* of validate stopped at.
LoadYaml ==
    /\ rpc = "load"
    /\ LET invalid == IF mode = "xdiff" THEN DiffConfigInvalid(document.profiles)
                      ELSE RequestConfigInvalid(document.profiles)
       IN  IF ~document.readable
           THEN Fail("load", "Io", "") /\ UNCHANGED config
           ELSE IF ~document.wellformed
           THEN Fail("load", "ConfigParse", "") /\ UNCHANGED config
           ELSE IF invalid # {}
           THEN (\E n \in invalid : Fail("load", "Validation", n)) /\ UNCHANGED config
           ELSE Pass("load", "lookup") /\ config' = [some |-> TRUE, profiles |-> document.profiles]
    /\ UNCHANGED <<mode, document, name, extra_params, tty, selected, extra_args,
                   url_text, issued, responses, texts, result, stdout>>
    /\ UNCHANGED <<engineVars, mainVars, callVars>>

\* config.get_profile(&args.profile).ok_or_else(..)?
GetProfile ==
    /\ rpc = "lookup"
    /\ IF name \in DOMAIN config.profiles
       THEN Pass("lookup", "args") /\ selected' = config.profiles[name]
       ELSE Fail("lookup", "ProfileNotFound", name) /\ UNCHANGED selected
    /\ UNCHANGED <<mode, document, name, extra_params, tty, config, extra_args,
                   url_text, issued, responses, texts, result, stdout>>
    /\ UNCHANGED <<engineVars, mainVars, callVars>>

\* args.extra_params.into() / ExtraArgs::from(args.extra_params)
IntoArgs ==
    /\ rpc = "args"
    /\ extra_args' = ExtraArgsFrom(extra_params)
    /\ Pass("args", IF mode = "xdiff" THEN "send1" ELSE "get_url")
    /\ UNCHANGED <<mode, document, name, extra_params, tty, config, selected,
                   url_text, issued, responses, texts, result, stdout>>
    /\ UNCHANGED <<engineVars, mainVars, callVars>>

\* A faulty step: the URL is printed as soon as it is known.
RunGetUrl_Printed ==
    /\ rpc = "get_url"
    /\ \E u \in {get_url(selected, extra_args)} :
          IF u.ok
          THEN /\ Pass("get_url", "send")
               /\ url_text' = u.s
               /\ stdout' = Append(stdout, "Url: " \o u.s \o "\n\n")
          ELSE Fail("get_url", "Merge", name) /\ UNCHANGED <<url_text, stdout>>
    /\ UNCHANGED <<mode, document, name, extra_params, tty, config, selected,
                   extra_args, issued, responses, texts, result>>
    /\ UNCHANGED <<engineVars, mainVars, callVars>>

\* xreq: profile.get_url(&extra_args)?
RunGetUrl ==
    /\ rpc = "get_url"
    /\ \E u \in {get_url(selected, extra_args)} :
          IF u.ok THEN Pass("get_url", "send") /\ url_text' = u.s
          ELSE Fail("get_url", "Merge", name) /\ UNCHANGED url_text
    /\ UNCHANGED <<mode, document, name, extra_params, tty, config, selected,
                   extra_args, issued, responses, texts, result, stdout>>
    /\ UNCHANGED <<engineVars, mainVars, callVars>>

\* RequestProfile::send: the merge, the request built, and its execution by the
\* client, which answers with a response or with a transport error.
SendRequest(req, stage, to) ==
    \E built \in {BuildRequest(req, extra_args)} :
        IF ~built.ok
        THEN Fail(stage, built.err, name) /\ UNCHANGED <<issued, responses>>
        ELSE /\ issued' = Append(issued, built)
             /\ \/ Fail(stage, "Network", name) /\ UNCHANGED responses
                \/ \E r \in Responses :
                     Pass(stage, to) /\ responses' = Append(responses, r)

\* xreq: profile.send(&extra_args).await?
RunSend ==
    /\ rpc = "send"
    /\ SendRequest(selected, "send", "reduce")
    /\ UNCHANGED <<mode, document, name, extra_params, tty, config, selected,
                   extra_args, url_text, texts, result, stdout>>
    /\ UNCHANGED <<engineVars, mainVars, callVars>>

\* xreq: get_status_text(&res)?, get_header_text(&res, &[])?,
\* get_body_text(res, &[]).await?
ReduceResponse ==
    /\ rpc = "reduce" /\ mode = "xreq"
    /\ \E body \in {get_body_text(responses[1], <<>>)} :
          IF body.ok
          THEN /\ Pass("reduce", "write")
               /\ texts' = <<get_status_text(responses[1]),
                             get_header_text(responses[1], <<>>), body.s>>
          ELSE Fail("reduce", "MalformedBody", name) /\ UNCHANGED texts
    /\ UNCHANGED <<mode, document, name, extra_params, tty, config, selected,
                   extra_args, url_text, issued, responses, result, stdout>>
    /\ UNCHANGED <<engineVars, mainVars, callVars>>

\* xreq: the output is composed and written to standard output in one write.
WriteOutput ==
    /\ rpc = "write" /\ mode = "xreq"
    /\ stdout' = Append(stdout, XreqOutput(tty, url_text, texts[1], texts[2], texts[3]))
    /\ Pass("write", "done")
    /\ UNCHANGED <<mode, document, name, extra_params, tty, config, selected,
                   extra_args, url_text, issued, responses, texts, result>>
    /\ UNCHANGED <<engineVars, mainVars, callVars>>

\* DiffProfile::diff: self.req1.send(&args).await?
DiffSend1 ==
    /\ rpc = "send1"
    /\ SendRequest(selected.req1, "send1", "send2")
    /\ UNCHANGED <<mode, document, name, extra_params, tty, config, selected,
                   extra_args, url_text, texts, result, stdout>>
    /\ UNCHANGED <<engineVars, mainVars, callVars>>

\* DiffProfile::diff: self.req2.send(&args).await?
DiffSend2 ==
    /\ rpc = "send2"
    /\ SendRequest(selected.req2, "send2", "reduce")
    /\ UNCHANGED <<mode, document, name, extra_params, tty, config, selected,
                   extra_args, url_text, texts, result, stdout>>
    /\ UNCHANGED <<engineVars, mainVars, callVars>>

\* DiffProfile::diff: res1.get_text(&self.res).await?, then
\* res2.get_text(&self.res).await?
DiffGetTexts ==
    /\ rpc = "reduce" /\ mode = "xdiff"
    /\ \E t1 \in {get_text(responses[1], selected.res)} :
          IF ~t1.ok THEN Fail("reduce", "MalformedBody", name) /\ UNCHANGED texts
          ELSE \E t2 \in {get_text(responses[2], selected.res)} :
                  IF ~t2.ok THEN Fail("reduce", "MalformedBody", name) /\ UNCHANGED texts
                  ELSE Pass("reduce", "diff") /\ texts' = <<t1.s, t2.s>>
    /\ UNCHANGED <<mode, document, name, extra_params, tty, config, selected,
                   extra_args, url_text, issued, responses, result, stdout>>
    /\ UNCHANGED <<engineVars, mainVars, callVars>>

\* DiffProfile::diff: diff_text(&text1, &text2)
DiffTexts ==
    /\ rpc = "diff"
    /\ result' = diff_text(texts[1], texts[2])
    /\ Pass("diff", "write")
    /\ UNCHANGED <<mode, document, name, extra_params, tty, config, selected,
                   extra_args, url_text, issued, responses, texts, stdout>>
    /\ UNCHANGED <<engineVars, mainVars, callVars>>

\* xdiff: write!(stdout, "{}", result)
WriteResult ==
    /\ rpc = "write" /\ mode = "xdiff"
    /\ stdout' = Append(stdout, result)
    /\ Pass("write", "done")
    /\ UNCHANGED <<mode, document, name, extra_params, tty, config, selected,
                   extra_args, url_text, issued, responses, texts, result>>
    /\ UNCHANGED <<engineVars, mainVars, callVars>>

NextRun ==
    \/ Invoke \/ LoadYaml \/ GetProfile \/ IntoArgs
    \/ RunGetUrl \/ RunSend \/ ReduceResponse \/ WriteOutput
    \/ DiffSend1 \/ DiffSend2 \/ DiffGetTexts \/ DiffTexts \/ WriteResult

SpecRun == Init /\ [][NextRun]_vars

(***************************************************************************)
(* main of the two binaries: the result of run is handed to                *)
(* process_error_output, and what that returns is the result of main, from *)
(* which the exit status of the process follows (0 for Ok, 1 for Err).     *)
(***************************************************************************)
\* process_error_output(result): an Err is written to standard error with {:?};
\* Ok(()) is returned unless that write fails.
ProcessErrorOutput ==
    /\ rpc \in {"done", "failed"}
    /\ rpc' = "exited"
    /\ IF failure = NoFailure
       THEN stderr' = stderr /\ exit_status' = <<0>>
       ELSE \/ stderr' = Append(stderr, failure) /\ exit_status' = <<0>>
            \/ stderr' = stderr /\ exit_status' = <<1>>
    /\ UNCHANGED <<mode, document, name, extra_params, tty, config, selected, extra_args,
                   url_text, issued, responses, texts, result, stdout, failure, stages>>
    /\ UNCHANGED <<engineVars, callVars>>

NextMain == NextRun \/ ProcessErrorOutput

SpecMain == Init /\ [][NextMain]_vars

(***************************************************************************)
(* Vocabulary of the properties.                                           *)
(***************************************************************************)
\* generate has been applied to the profile and the grouped overrides.
Merged == pc \in {"merged", "url", "sent"}

\* Number, Bool, Null or String: the values a form or query pair can carry.
IsScalar(v) == v.t \in {"null", "bool", "num", "float", "str"}

\* The keys of a map, as a set.
KeySet(o) == {o[i].k : i \in 1..Len(o)}

\* The keys named by a sequence of (key, value) pairs.
Named(pairs) == {pairs[i][1] : i \in 1..Len(pairs)}

\* The value of the last pair with key k.
LastValue(pairs, k) ==
    pairs[CHOOSE i \in 1..Len(pairs) :
            /\ pairs[i][1] = k
            /\ \A j \in (i + 1)..Len(pairs) : pairs[j][1] # k][2]

\* The header overrides with their names in lower case.
LowerNames(pairs) == [i \in 1..Len(pairs) |-> <<ToLower(pairs[i][1]), pairs[i][2]>>]

\* p occurs in s.
Occurs(s, p) == \E i \in 1..(Len(s) - Len(p) + 1) : SubSeq(s, i, i + Len(p) - 1) = p

\* Every override of args can be applied: header names and values are well formed
\* and every query and body value text is JSON.
Applicable ==
    /\ \A i \in 1..Len(args.headers) :
          HeaderNameFromStr(args.headers[i][1]).ok /\ HeaderValueFromStr(args.headers[i][2]).ok
    /\ \A i \in 1..Len(args.query) : JsonFromStr(args.query[i][2]).ok
    /\ \A i \in 1..Len(args.body) : JsonFromStr(args.body[i][2]).ok

\* The Content-Type in force once the header overrides are applied: the last
\* override of that name, else the profile's own, else the default.
FinalContentType ==
    LET hs == LowerNames(args.headers)
    IN  IF CONTENT_TYPE \in Named(hs) THEN LastValue(hs, CONTENT_TYPE)
        ELSE IF HasKey(profile.headers, CONTENT_TYPE) THEN Get(profile.headers, CONTENT_TYPE)
        ELSE "application/json"

\* Its type: the text before the first ';'.
FinalType == BeforeFirst(FinalContentType, ";")

FormTypes == {"application/x-www-form-urlencoded", "multipart/form-data"}

\* Every value of the object is a scalar other than Null.
Flat(obj) == \A i \in 1..Len(obj.o) : IsScalar(obj.o[i].v) /\ obj.o[i].v.t # "null"

\* An absent params or body counts as the empty object.
OrEmptyObject(v) == IF v = NoneValue THEN JObj(<<>>) ELSE v

\* The body object after the body overrides, when they can be applied.
FinalBody == ApplyPairs(OrEmptyObject(profile.body), args.body).v

\* The override %Content-Type=application/x-www-form-urlencoded
FormOverride == KeyVal("Header", "Content-Type", "application/x-www-form-urlencoded")

(***************************************************************************)
(* C1                                                                      *)
(***************************************************************************)
\* What C1 says a value text becomes: the JSON value it parses as, else its string.
ParsedOrString(t) == IF JsonFromStr(t).ok THEN JsonFromStr(t).v ELSE JStr(t)

\* C1 (as claimed): every value text of a query or body override, and of a query
\* parameter of the URL given to from_str, becomes the JSON scalar it parses as or
\* else the JSON string of the text; a text that is no JSON never makes generate or
\* from_str return an error.
C1_ValueParsedOrString ==
    /\ Merged => merged.err # "JsonParse"
    /\ Merged /\ merged.ok =>
          \A k \in Named(args.query) :
              Get(merged.query.o, k) = ParsedOrString(LastValue(args.query, k))
    /\ pc = "failed" => ~UrlParse(text).ok
    /\ (text # "" /\ pc = "profile") =>
          LET qp == QueryPairs(UrlParse(text).url)
          IN  \A k \in Named(qp) : Get(profile.params.o, k) = ParsedOrString(LastValue(qp, k))

(***************************************************************************)
(* C2                                                                      *)
(***************************************************************************)
\* Parts of C2 that do not depend on the body: in the headers generate returns, a
\* name overridden carries the value of its last override (also when the profile
\* has a header of that name), each name occurs once, and Content-Type is
\* application/json exactly when neither the profile nor an override names it.
C2_HeaderPrecedence ==
    Merged /\ merged.ok =>
        LET hs == LowerNames(args.headers)
        IN  /\ \A k \in Named(hs) : Get(merged.header, k) = LastValue(hs, k)
            /\ \A i, j \in 1..Len(merged.header) :
                  merged.header[i].k = merged.header[j].k => i = j
            /\ HasKey(merged.header, CONTENT_TYPE)
            /\ (CONTENT_TYPE \notin Named(hs) /\ ~HasKey(profile.headers, CONTENT_TYPE))
                  => Get(merged.header, CONTENT_TYPE) = "application/json"
            /\ HasKey(profile.headers, CONTENT_TYPE) /\ CONTENT_TYPE \notin Named(hs)
                  => Get(merged.header, CONTENT_TYPE) = Get(profile.headers, CONTENT_TYPE)

\* C2 (as claimed): for every profile, merging with the one header override
\* %Content-Type=application/x-www-form-urlencoded returns the body as form text,
\* never as JSON; and the header precedence above.
C2_FormOverrideAlwaysEncodes ==
    /\ C2_HeaderPrecedence
    /\ (Merged /\ kvs = <<FormOverride>>) =>
          /\ merged.ok
          /\ merged.body = UrlEncoded(OrEmptyObject(profile.body)).s
          /\ merged.body # ToJson(OrEmptyObject(profile.body))

\* C2 (amended): for every profile, merging with the one header override
\* %Content-Type=application/x-www-form-urlencoded never returns a JSON body: it
\* returns the body as form text, under that Content-Type, when every value of the
\* body is a scalar other than null, and fails otherwise; and the header
\* precedence above.
C2_FormOverrideWins ==
    /\ C2_HeaderPrecedence
    /\ (Merged /\ kvs = <<FormOverride>>) =>
          LET body == OrEmptyObject(profile.body)
          IN  IF Flat(body)
              THEN /\ merged.ok
                   /\ merged.body = UrlEncoded(body).s
                   /\ merged.body # ToJson(body)
                   /\ Get(merged.header, CONTENT_TYPE) = "application/x-www-form-urlencoded"
              ELSE ~merged.ok /\ merged.err = "Serialize"

\* C2 witness: a profile without Content-Type and with a body, merged with the form
\* override alone, gives form text.
C2_Witness ==
    /\ pc = "merged" /\ kvs = <<FormOverride>> /\ merged.ok
    /\ ~HasKey(profile.headers, CONTENT_TYPE)
    /\ merged.body = "id=1&title=to+do"

(***************************************************************************)
(* C3                                                                      *)
(***************************************************************************)
\* C3 (as claimed): once the overrides are applied, the type of the final
\* Content-Type (the text before its first ';') decides the result: for
\* application/json the body is returned as compact JSON, for
\* application/x-www-form-urlencoded and multipart/form-data as form text, and for
\* every other type generate fails with the unsupported-content-type error.
C3_TypeAlwaysDecides ==
    (Merged /\ Applicable) =>
        IF FinalType = "application/json"
        THEN merged.ok /\ merged.body = ToJson(FinalBody)
        ELSE IF FinalType \in FormTypes
        THEN merged.ok /\ merged.body = UrlEncoded(FinalBody).s
        ELSE ~merged.ok /\ merged.err = "UnsupportedContentType"

\* C3 (amended): as claimed, except that for a form type the body is returned as
\* form text only when every value of the body is a scalar other than null;
\* otherwise generate fails with a serialisation error.
C3_TypeDecidesEncoding ==
    (Merged /\ Applicable) =>
        IF FinalType = "application/json"
        THEN merged.ok /\ merged.body = ToJson(FinalBody)
        ELSE IF FinalType \in FormTypes
        THEN IF Flat(FinalBody)
             THEN merged.ok /\ merged.body = UrlEncoded(FinalBody).s
             ELSE ~merged.ok /\ merged.err = "Serialize"
        ELSE ~merged.ok /\ merged.err = "UnsupportedContentType"

\* C3 witness: a profile whose Content-Type carries a parameter suffix is merged
\* and its body comes back as compact JSON.
C3_Witness ==
    /\ pc = "merged" /\ merged.ok
    /\ HasKey(profile.headers, CONTENT_TYPE)
    /\ Get(profile.headers, CONTENT_TYPE) = "application/json; charset=utf-8"
    /\ merged.body = "{\"id\":1,\"title\":\"to do\"}"

(***************************************************************************)
(* C4                                                                      *)
(***************************************************************************)
\* The serialisation of the profile's own body under the final content type.
OwnBodyText ==
    IF FinalType = "application/json" THEN ToJson(OrEmptyObject(profile.body))
    ELSE UrlEncoded(OrEmptyObject(profile.body)).s

\* C4 (as claimed): for every profile, generate with an empty override set succeeds,
\* returns the profile's params as the query object (the empty object when absent)
\* and the serialisation of the profile's body (of the empty object when absent).
C4_EmptyOverridesAlwaysSucceed ==
    (Merged /\ kvs = <<>>) =>
        /\ merged.ok
        /\ merged.query = OrEmptyObject(profile.params)
        /\ merged.body = OwnBodyText

\* C4 (amended): generate with an empty override set succeeds exactly for the
\* profiles whose Content-Type is absent or of a supported type (and, for a form
\* type, whose body holds only scalars other than null); when it succeeds it
\* returns the profile's params and the serialisation of the profile's body
\* unchanged, and otherwise it returns an error.
C4_EmptyOverridesReproduce ==
    (Merged /\ kvs = <<>>) =>
        IF \/ FinalType = "application/json"
           \/ (FinalType \in FormTypes /\ Flat(OrEmptyObject(profile.body)))
        THEN /\ merged.ok
             /\ merged.query = OrEmptyObject(profile.params)
             /\ merged.body = OwnBodyText
        ELSE ~merged.ok

\* C4 witness: a profile with params and a body, merged with no override.
C4_Witness ==
    /\ pc = "merged" /\ kvs = <<>> /\ merged.ok
    /\ profile.headers = <<>>
    /\ Len(merged.query.o) = 2
    /\ merged.body = "{\"id\":1,\"title\":\"to do\"}"

(***************************************************************************)
(* C5                                                                      *)
(***************************************************************************)
\* The integer a canonical integer text writes.
IntOf(t) == IF Char(t, 1) = "-" THEN 0 - StrToNat(Tail(t)) ELSE StrToNat(t)

\* A text that is a JSON integer (other than the float -0).
IsIntText(t) == IsJsonInt(t) /\ t # "-0"

\* The key=value pieces of the query string of a URL text.
QueryPieces(u) ==
    LET pieces == SplitOn(AfterFirst(u, "?"), "&")
    IN  {pieces[i] : i \in 1..Len(pieces)}

\* C5: a query override whose value text is an integer is held in the merged query
\* object as a JSON number and is written unquoted in the URL of get_url; and query
\* overrides that give parameters the integer values they already have leave the
\* result of get_url as it is without them, in whatever order they are given.
C5_IntegerOverride ==
    (pc \in {"url", "sent"} /\ merged.ok) =>
        /\ \A k \in Named(args.query) :
              LET v == LastValue(args.query, k)
              IN  IsIntText(v) =>
                    /\ Get(merged.query.o, k) = JNum(IntOf(v))
                    /\ url.ok
                    /\ (k \o "=" \o v) \in QueryPieces(url.s)
                    /\ (k \o "=%22" \o v \o "%22") \notin QueryPieces(url.s)
        /\ (\A i \in 1..Len(args.query) :
                /\ IsIntText(args.query[i][2])
                /\ HasKey(OrEmptyObject(profile.params).o, args.query[i][1])
                /\ Get(profile.params.o, args.query[i][1]) = JNum(IntOf(args.query[i][2])))
              => url = get_url(profile, [args EXCEPT !.query = <<>>])

\* C5 witness: the parameters a=1 and b=2 of a profile overridden by b=2 then a=1.
C5_Witness ==
    /\ pc = "url" /\ url.ok
    /\ kvs = <<KeyVal("Query", "b", "2"), KeyVal("Query", "a", "1")>>
    /\ profile.params = JObj(<<Entry("a", JNum(1)), Entry("b", JNum(2))>>)
    /\ url.s = "http://h/todo?a=1&b=2"

(***************************************************************************)
(* C6                                                                      *)
(***************************************************************************)
\* The vector of args that holds the overrides of a kind.
GroupOf(kind) ==
    IF kind = "Header" THEN args.headers
    ELSE IF kind = "Query" THEN args.query
    ELSE args.body

\* The number of tokens of the kind of kvs[i] among the first i tokens.
RankInKind(i) == Cardinality({j \in 1..i : kvs[j].key_type = kvs[i].key_type})

\* The member a key with a value has in a serialised body.
JsonMember(k, v) == "\"" \o k \o "\":" \o ToJson(v)
FormMember(k, v) == FormEncode(k) \o "=" \o FormEncode(ScalarText(v))
BodyMember(k, v) ==
    IF FinalType = "application/json" THEN JsonMember(k, v) ELSE FormMember(k, v)

\* C6: grouping keeps, within each kind, the order of the tokens (the n-th token of
\* a kind is the n-th pair of the vector of that kind, and nothing else is in it);
\* and in what generate returns, for every kind, a key named by overrides has the
\* value of the last override that names it, and a key of the profile named by no
\* override keeps the profile's value.
C6_OrderedLastWriteWins ==
    /\ pc \in {"args", "merged", "url", "sent"} =>
          /\ \A kind \in KeyValType :
                Len(GroupOf(kind)) = Cardinality({j \in 1..Len(kvs) : kvs[j].key_type = kind})
          /\ \A i \in 1..Len(kvs) :
                GroupOf(kvs[i].key_type)[RankInKind(i)] = <<kvs[i].key, kvs[i].value>>
    /\ (Merged /\ merged.ok) =>
          LET params == OrEmptyObject(profile.params)
              body == OrEmptyObject(profile.body)
              hs == LowerNames(args.headers)
          IN  /\ KeySet(merged.query.o) = KeySet(params.o) \cup Named(args.query)
              /\ \A k \in Named(args.query) :
                    Get(merged.query.o, k) = JsonFromStr(LastValue(args.query, k)).v
              /\ \A k \in KeySet(params.o) \ Named(args.query) :
                    Get(merged.query.o, k) = Get(params.o, k)
              /\ \A k \in Named(hs) : Get(merged.header, k) = LastValue(hs, k)
              /\ \A k \in KeySet(profile.headers) \ Named(hs) :
                    Get(merged.header, k) = Get(profile.headers, k)
              /\ \A k \in Named(args.body) :
                    /\ Occurs(merged.body,
                              BodyMember(k, JsonFromStr(LastValue(args.body, k)).v))
                    /\ \A i \in 1..Len(args.body) :
                          (/\ args.body[i][1] = k
                           /\ args.body[i][2] # LastValue(args.body, k))
                          => ~Occurs(merged.body, BodyMember(k, JsonFromStr(args.body[i][2]).v))
                    /\ (HasKey(body.o, k)
                        /\ Get(body.o, k) # JsonFromStr(LastValue(args.body, k)).v)
                          => ~Occurs(merged.body, BodyMember(k, Get(body.o, k)))
              /\ \A k \in KeySet(body.o) \ Named(args.body) :
                    Occurs(merged.body, BodyMember(k, Get(body.o, k)))

\* C6 witness: two query overrides of the key a, between them a header override;
\* the merged value of a is that of the second.
C6_Witness ==
    /\ pc = "merged" /\ merged.ok
    /\ Len(kvs) >= 2
    /\ kvs[1] = KeyVal("Query", "a", "1")
    /\ kvs[Len(kvs)] = KeyVal("Query", "a", "7")
    /\ Get(merged.query.o, "a") = JNum(7)

(***************************************************************************)
(* C7                                                                      *)
(***************************************************************************)
\* C7 (as claimed): whenever generate succeeds for a profile and overrides, get_url
\* returns a URL, send builds a request, and the URL of the request is the URL
\* get_url returned.
C7_GetUrlIsRequestUrl ==
    (pc = "sent" /\ merged.ok) => (url.ok /\ request.ok /\ request.url = url.s)

(***************************************************************************)
(* C8                                                                      *)
(***************************************************************************)
\* The (name, value) pairs of the query string of a URL text.
PairsOfText(t) == QueryPairs(UrlParse(t).url)

\* A URL text whose query parameters have distinct keys and integer values.
IntegerUrl(t) ==
    /\ UrlParse(t).ok
    /\ \A i, j \in 1..Len(PairsOfText(t)) :
          PairsOfText(t)[i][1] = PairsOfText(t)[j][1] => i = j
    /\ \A i \in 1..Len(PairsOfText(t)) : IsIntText(PairsOfText(t)[i][2])

\* Its keys are in ascending order.
AscendingKeys(t) ==
    \A i, j \in 1..Len(PairsOfText(t)) :
        i < j => StrLess(PairsOfText(t)[i][1], PairsOfText(t)[j][1])

\* from_str of an integer URL gives a GET profile without headers, body or query
\* string, whose params hold exactly the parameters, each as a JSON number.
LiftedAsNumbers ==
    /\ pc # "failed"
    /\ profile.method = "GET" /\ profile.headers = <<>> /\ profile.body = NoneValue
    /\ ~profile.url.hasq
    /\ IsObject(profile.params)
    /\ KeySet(profile.params.o) = Named(PairsOfText(text))
    /\ \A k \in Named(PairsOfText(text)) :
          Get(profile.params.o, k) = JNum(IntOf(LastValue(PairsOfText(text), k)))

NotAnObject(v) == v # NoneValue /\ v.t # "obj"

\* A request profile breaks the shape rule.
BadShape(p) == NotAnObject(p.params) \/ NotAnObject(p.body)

\* The names of the profiles of the document that break the shape rule; in an
\* xdiff document a pair breaks it when one of its two requests does.
BadNames ==
    {n \in DOMAIN document.profiles :
        IF mode = "xdiff"
        THEN BadShape(document.profiles[n].req1) \/ BadShape(document.profiles[n].req2)
        ELSE BadShape(document.profiles[n])}

\* The stages of a run, in the order of the code.
Pipeline ==
    IF mode = "xdiff"
    THEN <<"load", "lookup", "args", "send1", "send2", "reduce", "diff", "write">>
    ELSE <<"load", "lookup", "args", "get_url", "send", "reduce", "write">>

\* p is the beginning of q.
IsPrefix(p, q) == Len(p) <= Len(q) /\ SubSeq(q, 1, Len(p)) = p

(***************************************************************************)
(* C9.  Validation is eager and precedes every request: when a profile of  *)
(* the loaded document, selected or not, has params or body present and    *)
(* not an object, the load fails with a validation error that names such a *)
(* profile, no store is returned and no request is issued in the run.      *)
(***************************************************************************)
C9_EagerValidation ==
    (document.readable /\ document.wellformed /\ BadNames # {}) =>
        /\ config = NoConfig
        /\ issued = <<>>
        /\ rpc # "load" =>
              /\ rpc = "failed"
              /\ stages = <<"load">>
              /\ failure.kind = "Validation"
              /\ failure.name \in BadNames

\* The load has failed on a profile that is not the one --profile selects, the
\* selected one being in the document and valid.
C9_Witness ==
    /\ rpc = "failed"
    /\ failure.kind = "Validation"
    /\ name \in DOMAIN document.profiles
    /\ name \notin BadNames
    /\ failure.name # name

(***************************************************************************)
(* C10.  There is no partial success: standard output receives the result, *)
(* in one write, only when every stage of the run has succeeded, the       *)
(* stages run in the order of the pipeline, and once a stage has failed    *)
(* nothing has been written and no further step of the run can be taken.   *)
(***************************************************************************)
C10_AllOrNothing ==
    /\ IsPrefix(stages, Pipeline)
    /\ stdout # <<>> =>
          /\ failure = NoFailure
          /\ stages = Pipeline
          /\ Len(stdout) = 1
    /\ failure # NoFailure =>
          /\ stdout = <<>>
          /\ rpc = "failed"
          /\ ~ENABLED NextRun

\* A run has failed in reducing a response, after its requests were issued, and
\* standard output is empty.
C10_Witness ==
    /\ failure.kind = "MalformedBody"
    /\ Len(issued) >= 1
    /\ Len(responses) = Len(issued)
    /\ stdout = <<>>

(***************************************************************************)
(* The public functions of the crate applied on their own, each to an      *)
(* input of its own.                                                       *)
(***************************************************************************)
\* parse_key_value(s), the value_parser of -e
ParseKeyValue ==
    /\ called = ""
    /\ \E s \in RawTokens :
          /\ input' = <<s>>
          /\ output' = parse_key_value(s)
    /\ called' = "parse_key_value"
    /\ UNCHANGED <<engineVars, runVars, mainVars>>

\* get_body_text(res, &profile.skip_body)
GetBodyText ==
    /\ called = ""
    /\ \E i \in ReduceInputs :
          /\ input' = <<i[1], i[2].skip_body>>
          /\ output' = get_body_text(i[1], i[2].skip_body)
    /\ called' = "get_body_text"
    /\ UNCHANGED <<engineVars, runVars, mainVars>>

\* get_header_text(&res, &profile.skip_headers)
GetHeaderText ==
    /\ called = ""
    /\ \E i \in ReduceInputs :
          /\ input' = <<i[1], i[2].skip_headers>>
          /\ output' = get_header_text(i[1], i[2].skip_headers)
    /\ called' = "get_header_text"
    /\ UNCHANGED <<engineVars, runVars, mainVars>>

\* ResponseExt(res).get_text(&profile)
GetText ==
    /\ called = ""
    /\ \E i \in ReduceInputs :
          /\ input' = i
          /\ output' = get_text(i[1], i[2])
    /\ called' = "get_text"
    /\ UNCHANGED <<engineVars, runVars, mainVars>>

\* diff_text(text1, text2)
DiffText ==
    /\ called = ""
    /\ \E i \in DiffInputs :
          /\ input' = i
          /\ output' = diff_text(i[1], i[2])
    /\ called' = "diff_text"
    /\ UNCHANGED <<engineVars, runVars, mainVars>>

NextCall == ParseKeyValue \/ GetBodyText \/ GetHeaderText \/ GetText \/ DiffText

SpecCall == Init /\ [][NextCall]_vars

(***************************************************************************)
(* The comparison of two responses, applied on its own.                    *)
(***************************************************************************)
\* DiffProfile::diff once the two responses are there: get_text of each with the
\* Response Profile of the pair, then diff_text of the two texts; the first error
\* is returned.
DiffResponses ==
    /\ called = ""
    /\ \E i \in CompareInputs :
          /\ input' = i
          /\ \E t1 \in {get_text(i[1], i[3])}, t2 \in {get_text(i[2], i[3])} :
                output' = [text1 |-> t1, text2 |-> t2,
                           diff |-> IF t1.ok /\ t2.ok THEN TextOk(diff_text(t1.s, t2.s))
                                    ELSE TextErr]
    /\ called' = "diff"
    /\ UNCHANGED <<engineVars, runVars, mainVars>>

SpecCompare == Init /\ [][DiffResponses]_vars

(***************************************************************************)
(* C11                                                                     *)
(***************************************************************************)
\* C11 (as claimed): when the process has exited after run returned an error, the
\* exit status is not zero and the error is on standard error (unless standard
\* error could not be written); when run returned Ok the exit status is zero and
\* nothing is on standard error.
C11_ExitStatusTellsFailure ==
    rpc = "exited" =>
        IF failure = NoFailure THEN exit_status = <<0>> /\ stderr = <<>>
        ELSE exit_status # <<0>> /\ stderr \in {<<failure>>, <<>>}

(***************************************************************************)
(* C12, C13                                                                *)
(***************************************************************************)
\* t is s without white space at its two ends.
IsTrimOf(t, s) ==
    \E a \in 0..Len(s) : \E b \in a..Len(s) :
        /\ t = SubSeq(s, a + 1, b)
        /\ \A i \in (1..a) \cup ((b + 1)..Len(s)) : IsSpace(Char(s, i))
        /\ t # "" => (~IsSpace(Char(s, a + 1)) /\ ~IsSpace(Char(s, b)))

\* The texts made of consecutive characters of s.
Pieces(s) == {SubSeq(s, a, b) : a \in 1..(Len(s) + 1), b \in 0..Len(s)}

\* The token classified is split at position i: its first `=`.
FirstEquals(i) ==
    /\ i \in 1..Len(input[1])
    /\ Char(input[1], i) = "="
    /\ \A j \in 1..(i - 1) : Char(input[1], j) # "="

\* The key part of the token classified is k: the text before its first `=`,
\* without white space at its ends.
KeyPart(k) == \E i \in 1..Len(input[1]) :
                  FirstEquals(i) /\ IsTrimOf(k, SubSeq(input[1], 1, i - 1))

\* The value part of the token classified is v: the text after its first `=`,
\* without white space at its ends.
ValuePart(v) == \E i \in 1..Len(input[1]) :
                    FirstEquals(i) /\ IsTrimOf(v, SubSeq(input[1], i + 1, Len(input[1])))

\* C12 (as claimed): classification fails for a token without `=`, for a token
\* whose key part is empty, and for a token whose key part starts with a
\* character that is not %, @ or a letter; every token accepted gives a key that
\* is not empty.
C12_RejectsAndKeyNotEmpty ==
    called = "parse_key_value" =>
        /\ (\A i \in 1..Len(input[1]) : Char(input[1], i) # "=") => ~output.ok
        /\ KeyPart("") => ~output.ok
        /\ (\E k \in Pieces(input[1]) :
                /\ KeyPart(k) /\ k # ""
                /\ Char(k, 1) \notin {"%", "@"}
                /\ ~IsAlpha(Char(k, 1))) => ~output.ok
        /\ output.ok => output.kv.key # ""

\* C13: a token that classification accepts is split on its first `=`, both
\* parts lose the white space at their ends, and the result is Header with the
\* key part after its %, Body with the key part after its @, or Query with the
\* key part as it is when that starts with a letter; the value is the value part.
C13_SplitTrimClassify ==
    (called = "parse_key_value" /\ output.ok) =>
        \E k, v \in Pieces(input[1]) :
            /\ KeyPart(k) /\ ValuePart(v)
            /\ k # ""
            /\ output.kv.value = v
            /\ \/ Char(k, 1) = "%" /\ output.kv.key_type = "Header" /\ output.kv.key = Tail(k)
               \/ Char(k, 1) = "@" /\ output.kv.key_type = "Body" /\ output.kv.key = Tail(k)
               \/ IsAlpha(Char(k, 1)) /\ output.kv.key_type = "Query" /\ output.kv.key = k

\* A header token with white space around its parts and a second `=` in its value
\* has been classified.
C13_Witness ==
    /\ called = "parse_key_value"
    /\ input = <<"% k = a=b ">>
    /\ output = [ok |-> TRUE, kv |-> KeyVal("Header", " k", "a=b")]

(***************************************************************************)
(* C14                                                                     *)
(***************************************************************************)
\* The content type of the response is application/json, with or without a
\* parameter after it.
JsonType(res) ==
    /\ HasKey(res.headers, "content-type")
    /\ \E rest \in {"", "; charset=utf-8"} :
          Get(res.headers, "content-type") = "application/json" \o rest

\* The response reduced has a JSON content type and its body is JSON.
JsonBodyReduced ==
    /\ called = "get_body_text"
    /\ JsonType(input[1])
    /\ JsonFromStr(input[1].text).ok

\* The names listed in a skip list.
Listed(skip) == {skip[i] : i \in 1..Len(skip)}

\* C14: the reduced body of a JSON response is again JSON; for an object it has
\* the top-level keys of the body that skip_body does not list, each with the value
\* it had (nested objects with all their keys); a value that is no object is not
\* changed; with an empty skip_body the text is the pretty-printed value.
C14_OnlyListedTopLevelKeysRemoved ==
    JsonBodyReduced =>
        LET received == JsonFromStr(input[1].text).v
            reduced == JsonFromStr(output.s)
        IN  /\ output.ok /\ reduced.ok
            /\ received.t # "obj" => reduced.v = received
            /\ received.t = "obj" =>
                  /\ reduced.v.t = "obj"
                  /\ KeySet(reduced.v.o) = KeySet(received.o) \ Listed(input[2])
                  /\ \A k \in KeySet(reduced.v.o) : Get(reduced.v.o, k) = Get(received.o, k)
            /\ input[2] = <<>> => output.s = ToJsonPretty(received, "")

\* A body whose nested object has the keys id and title was reduced with both
\* listed: the nested keys are in the text, the top-level ones are not.
C14_Witness ==
    /\ JsonBodyReduced
    /\ input[2] = <<"title", "id">>
    /\ output.s = "{\n  \"meta\": {\n    \"id\": 2,\n    \"title\": \"x\"\n  }\n}"

(***************************************************************************)
(* C15                                                                     *)
(***************************************************************************)
\* C15: a body that is no JSON under the content type application/json (with or
\* without a parameter) makes the reduction fail; under any other content type,
\* or none, the body is returned as it was received, whatever skip_body lists.
C15_MalformedJsonFailsOthersPass ==
    called = "get_body_text" =>
        /\ (JsonType(input[1]) /\ ~JsonFromStr(input[1].text).ok) => ~output.ok
        /\ ~JsonType(input[1]) => (output.ok /\ output.s = input[1].text)

\* A body that is no JSON was received under application/json; charset=utf-8 and
\* the reduction failed.
C15_Witness ==
    /\ called = "get_body_text"
    /\ JsonType(input[1])
    /\ Get(input[1].headers, "content-type") = "application/json; charset=utf-8"
    /\ input[1].text = "<html>"
    /\ input[2] # <<>>
    /\ ~output.ok

(***************************************************************************)
(* C16                                                                     *)
(***************************************************************************)
\* C16 (as claimed): the header text is one line name:value (the value in its
\* debug quoting) for each header received whose name skip_headers does not list,
\* in the order the headers were received, and then one empty line.
C16_HeaderLinesInOrderReceived ==
    called = "get_header_text" =>
        LET shown == SelectSeq(input[1].headers, LAMBDA e : e.k \notin Listed(input[2]))
        IN  output = Join([i \in 1..Len(shown) |->
                             shown[i].k \o ":" \o DebugValue(shown[i].v) \o "\n"], "")
                     \o "\n"

(***************************************************************************)
(* C17                                                                     *)
(***************************************************************************)
\* C17 (as claimed): the first line of the text of a reduced response is the
\* status line, the protocol version and the status code, and nothing else: a line
\* break ends it before the header lines.
C17_StatusLineOnItsOwnLine ==
    (called = "get_text" /\ output.ok) =>
        /\ Contains(output.s, "\n")
        /\ BeforeFirst(output.s, "\n") = input[1].version \o " " \o input[1].status

(***************************************************************************)
(* C18                                                                     *)
(***************************************************************************)
\* C18 (as claimed): what xreq run writes to standard output holds the status, the
\* headers and the body of the response: highlighted on a terminal, as they are
\* otherwise.
C18_OutputHasStatusHeadersBody ==
    (mode = "xreq" /\ stdout # <<>>) =>
        /\ Occurs(stdout[1], texts[1])
        /\ IF tty
           THEN /\ Occurs(stdout[1], highlight_text(texts[2], "yaml", None))
                /\ Occurs(stdout[1], highlight_text(texts[3], "json",
                                                    Some("base16-mocha.dark")))
           ELSE /\ Occurs(stdout[1], texts[2])
                /\ Occurs(stdout[1], texts[3])

(***************************************************************************)
(* C19                                                                     *)
(***************************************************************************)
\* A line without its line break.
Chomp(l) == IF l # "" /\ Char(l, Len(l)) = "\n" THEN SubSeq(l, 1, Len(l) - 1) ELSE l

\* The number written in a column of four characters, 0 for four blanks.
ColumnNumber(f) == IF f = "    " THEN 0 ELSE StrToNat(BeforeFirst(f, " "))

\* The lines of the diff written: for each, whether a separator of 80 dashes
\* precedes it, the two number columns, the bar, the sign and the content.
RenderedLines ==
    LET ls == LinesWithEndings(output)
    IN  [p \in 1..Len(ls) |->
            LET sep == Len(ls[p]) >= 80 /\ AllChars(SubSeq(ls[p], 1, 80), "-")
                b == IF sep THEN SubSeq(ls[p], 81, Len(ls[p])) ELSE ls[p]
            IN  [sep |-> sep,
                 oldcol |-> SubSeq(b, 1, 4),
                 newcol |-> SubSeq(b, 5, 8),
                 old |-> ColumnNumber(SubSeq(b, 1, 4)),
                 new |-> ColumnNumber(SubSeq(b, 5, 8)),
                 bar |-> SubSeq(b, 9, 10),
                 sign |-> SubSeq(b, 11, 11),
                 value |-> Chomp(SubSeq(b, 12, Len(b)))]]

\* The lines of a text that are not at the numbers given, in order.
HiddenLines(t, numbers) ==
    LET ls == LinesWithEndings(t)
        at == SelectSeq([i \in 1..Len(ls) |-> i], LAMBDA i : i \notin numbers)
    IN  [k \in 1..Len(at) |-> ls[at[k]]]

\* The greatest of the numbers r[q].old (side "old") or r[q].new over q <= p, 0
\* when p = 0.
LastNumber(r, side, p) ==
    LET ns == {IF side = "old" THEN r[q].old ELSE r[q].new : q \in 1..p} \cup {0}
    IN  CHOOSE n \in ns : \A m \in ns : m <= n

\* C19: each line of the diff has the two number columns, the bar and a sign; a -
\* line has an old number and no new number, a + line a new number and no old
\* number, an equal line both; the content is the line of text_a (old) and of
\* text_b (new) at that 1-based number; the numbers of each side increase down the
\* diff; the lines not rendered are the same lines in the two texts; each equal
\* line is at most 3 lines away from a changed line of its hunk; and a separator
\* precedes a line exactly when lines were left out between it and the line before.
C19_DiffLinesNumbersHunks ==
    called = "diff_text" =>
        LET r == RenderedLines
            a == LinesWithEndings(input[1])
            b == LinesWithEndings(input[2])
        IN  /\ \A p \in 1..Len(r) :
                  /\ r[p].bar = " |"
                  /\ r[p].sign \in {"-", "+", " "}
                  /\ r[p].sign = "-" => (r[p].old > 0 /\ r[p].newcol = "    ")
                  /\ r[p].sign = "+" => (r[p].oldcol = "    " /\ r[p].new > 0)
                  /\ r[p].sign = " " => (r[p].old > 0 /\ r[p].new > 0)
                  /\ r[p].old > 0 =>
                        (r[p].old <= Len(a) /\ r[p].value = Chomp(a[r[p].old]))
                  /\ r[p].new > 0 =>
                        (r[p].new <= Len(b) /\ r[p].value = Chomp(b[r[p].new]))
                  /\ r[p].sign = " " => a[r[p].old] = b[r[p].new]
                  /\ r[p].old > 0 => r[p].old > LastNumber(r, "old", p - 1)
                  /\ r[p].new > 0 => r[p].new > LastNumber(r, "new", p - 1)
                  /\ r[p].sign = " " =>
                        \E q \in 1..Len(r) :
                            /\ r[q].sign # " "
                            /\ q - p <= 3 /\ p - q <= 3
                            /\ \A m \in 1..Len(r) :
                                  ((p < m /\ m <= q) \/ (q < m /\ m <= p)) => ~r[m].sep
                  /\ r[p].sep <=>
                        /\ p > 1
                        /\ \/ r[p].old > LastNumber(r, "old", p - 1) + 1
                           \/ r[p].new > LastNumber(r, "new", p - 1) + 1
            /\ HiddenLines(input[1], {r[p].old : p \in 1..Len(r)})
                   = HiddenLines(input[2], {r[p].new : p \in 1..Len(r)})

\* Two texts with changes eight equal lines apart were compared: the diff has two
\* hunks, the second after a separator and starting at line 7 of both texts.
C19_Witness ==
    /\ called = "diff_text"
    /\ Len(RenderedLines) = 10
    /\ RenderedLines[6].sep
    /\ RenderedLines[6].old = 7 /\ RenderedLines[6].new = 7
    /\ RenderedLines[9].sign = "-" /\ RenderedLines[10].sign = "+"

(***************************************************************************)
(* C20                                                                     *)
(***************************************************************************)
\* The headers hold a Content-Type that is one of the three types generate can
\* encode, alone or followed by a parameter.
EncodableType(headers) ==
    /\ HasKey(headers, "content-type")
    /\ \E t \in {"application/json", "application/x-www-form-urlencoded",
                 "multipart/form-data"} :
          \/ Get(headers, "content-type") = t
          \/ StartsWith(Get(headers, "content-type"), t \o ";")

\* C20: the headers generate returns, and the headers of every request send
\* builds, hold a Content-Type of one of the three types, for every profile and
\* every set of overrides.
C20_ContentTypeAlwaysEncodable ==
    /\ (Merged /\ merged.ok) => EncodableType(merged.header)
    /\ (pc = "sent" /\ request.ok) => EncodableType(request.headers)

\* A request was built for a profile without headers and with no override: it
\* carries the default type.
C20_Witness ==
    /\ pc = "sent" /\ request.ok
    /\ profile.headers = <<>> /\ kvs = <<>>
    /\ Get(request.headers, "content-type") = "application/json"

(***************************************************************************)
(* C21                                                                     *)
(***************************************************************************)
\* The headers of the two lists whose names skip_headers does not list are the
\* same, in the same order.
SameHeadersBut(headers1, headers2, skip_headers) ==
    SelectSeq(headers1, LAMBDA e : e.k \notin Listed(skip_headers))
        = SelectSeq(headers2, LAMBDA e : e.k \notin Listed(skip_headers))

\* The bodies of the two responses are the same text, or both are JSON bodies (of
\* responses of the type application/json) with the same value, or with objects
\* that have the same members under every key skip_body does not list.
SameBodyBut(res1, res2, skip_body) ==
    \/ res1.text = res2.text
    \/ /\ JsonType(res1) /\ JsonType(res2)
       /\ JsonFromStr(res1.text).ok /\ JsonFromStr(res2.text).ok
       /\ LET v1 == JsonFromStr(res1.text).v
              v2 == JsonFromStr(res2.text).v
          IN  \/ v1 = v2
              \/ /\ v1.t = "obj" /\ v2.t = "obj"
                 /\ \A k \in (KeySet(v1.o) \cup KeySet(v2.o)) \ Listed(skip_body) :
                       /\ HasKey(v1.o, k) /\ HasKey(v2.o, k)
                       /\ Get(v1.o, k) = Get(v2.o, k)

\* Two responses were compared that have the same status line and differ only in
\* headers skip_headers names and in top-level keys of JSON bodies skip_body lists.
DifferOnlyInSkipped ==
    /\ called = "diff"
    /\ input[1].version = input[2].version
    /\ input[1].status = input[2].status
    /\ SameHeadersBut(input[1].headers, input[2].headers, input[3].skip_headers)
    /\ SameBodyBut(input[1], input[2], input[3].skip_body)

\* The two reductions have the same result, and the diff of two texts is empty.
NoDifferenceShown ==
    /\ output.text1 = output.text2
    /\ output.text1.ok => output.diff = TextOk("")

====
